---- MODULE Spec2Model ----
(***************************************************************************)
(* Model of the publish tool ingest_to_firebase.py: the SyncState file,    *)
(* the staleness check, blob uploads and the batched commits of the three  *)
(* entity kinds (documents, images, faces), over repeated publish runs on  *)
(* a local artifact tree that other stages modify between runs.            *)
(***************************************************************************)
EXTENDS Integers, Sequences, FiniteSets, TLC

(* ------------------------------ bounds -------------------------------- *)
\* number of PDF items in the inventory
NPdf == 13
\* number of image directories extracted from the second illustrated PDF
NImgs == 15
\* environment events in one behaviour: a failing call (blob upload, batch
\* commit, state-file write), an artifact written by another stage between
\* two runs, or a run started with --only or without the Vector class
MaxEvents == 1
\* the file links of the site
NUrls == 2
\* tool runs of the pipeline, one after the other
MaxRuns == 2
\* runs of stage tools next to each other
MaxStageRuns == 3
\* interrupted writes of the inventory
MaxCrashes == 1
\* calls of the per-image stage functions
MaxStageSteps == 3
\* PDF items of the corpus the document stages run over
NPdfUrls == 2
\* images extracted from one document
NPics == 2
\* runs of the document stages, one after the other
MaxPipelineRuns == 4
\* tool runs with repair_inventory among them
MaxRepairRuns == 3
(* ------------------------- program constants -------------------------- *)
\* "if batch_count >= 10"
BatchLimit == 10

COL_DOCUMENTS == "documents"
COL_IMAGES == "images"
COL_FACES == "faces"

(* ------------------------------ corpus -------------------------------- *)
\* inventory.items() in iteration order: the PDF items, then one item that
\* is no PDF, then one item without local_path
Items == 1 .. (NPdf + 2)

\* meta.get("local_path") classified: what lines 122-128 test
LocalPathKind(u) ==
    IF u <= NPdf THEN "pdf" ELSE IF u = NPdf + 1 THEN "other" ELSE "none"

\* doc_id: meta.get("id") is never set by the scraper, so the file stem
DocId(u) == <<u>>
\* db_id = f"{doc_id}_{img_name}"
ImgDbId(u, n) == DocId(u) \o <<n>>
\* face_id = f"{image_db_id}_{i}"
FaceId(u, n, i) == ImgDbId(u, n) \o <<i>>

DocTextNames == <<"content.txt", "content.md", "ocr.txt", "ocr.md">>
ImgTextNames == <<"ocr.txt", "ocr.md">>
DocFileNames ==
    {"pdf", "medium.avif", "thumb.avif", "info.json",
     "content.txt", "content.md", "ocr.txt", "ocr.md"}
ImgFileNames ==
    {"eval.json", "medium.avif", "thumb.avif", "analysis.json",
     "ocr.txt", "ocr.md", "faces.json"}

\* a path is the directory (document, or document and image) and the name
Path(dir, name) == <<dir, name>>

\* os.path.exists(images_root): extraction produced images for two
\* documents
ImagesRootExists(u) == u \in {1, 4}

\* os.listdir(images_root). Document 1 holds the single image directory
\* page1_img1; document 4 holds NImgs image directories and, as entry 0, a
\* plain file (a flat legacy sidecar)
ImgNames(u) == IF u = 1 THEN {1} ELSE IF u = 4 THEN 0 .. NImgs ELSE {}
IsDir(u, n) == n >= 1

\* the entities other stages are still working on: document 1 and its
\* image. Environment events (a failing upload, a modified artifact) hit
\* their artifacts only
Volatile(dir) == dir[1] = 1

\* modification times of the artifact tree before the first publish run
\* (0: the path does not exist)
InitMtime(p) ==
    LET dir == p[1]
        name == p[2]
    IN  IF Len(dir) = 1
        THEN LET u == dir[1]
             IN  CASE name = "pdf" -> 1
                   [] name = "medium.avif" -> IF u = 3 THEN 0 ELSE 2
                   [] name = "thumb.avif" -> IF u \in {2, 3} THEN 0 ELSE 2
                   [] name = "info.json" -> IF u = 1 THEN 2 ELSE 0
                   [] name = "content.txt" -> IF u = 1 THEN 3 ELSE 0
                   [] OTHER -> 0
        ELSE IF dir[1] = 1
        THEN CASE name = "eval.json" -> 3
               [] name = "medium.avif" -> 2
               [] name = "thumb.avif" -> 2
               [] name = "faces.json" -> 3
               [] OTHER -> 0
        ELSE LET n == dir[2]
             IN  CASE name = "eval.json" -> IF n = 2 THEN 0 ELSE 2
                   [] name = "medium.avif" -> IF n = 3 THEN 0 ELSE 2
                   [] name = "thumb.avif" -> IF n \in {3, 4} THEN 0 ELSE 3
                   [] name = "analysis.json" -> IF n = 1 THEN 1 ELSE 0
                   [] name = "ocr.txt" -> IF n = 1 THEN 3 ELSE 0
                   [] name = "faces.json" -> IF n <= 5 THEN 3 ELSE 0
                   [] OTHER -> 0
\* json.load(eval.json) succeeds
EvalReadable(u, n) == ~(u = 4 /\ n = 5)
\* json.load(faces.json) succeeds
FacesReadable(u, n) == ~(u = 4 /\ n = 3)
\* the list in faces.json: for each face, whether face.get("embedding")
\* is non-empty
FacesData(u, n) ==
    CASE u = 4 /\ n = 1 -> <<FALSE>> \o [i \in 1 .. BatchLimit |-> TRUE]
      [] u = 4 /\ n = 4 -> <<>>
      [] u = 4 /\ n = 5 -> <<FALSE>>
      [] OTHER -> <<TRUE, TRUE>>

DocPaths == {Path(DocId(u), name) : u \in 1 .. NPdf, name \in DocFileNames}
ImgDirs ==
    UNION {{ImgDbId(u, n) : n \in {m \in ImgNames(u) : IsDir(u, m)}} : u \in 1 .. NPdf}
ImgPaths == {Path(dir, name) : dir \in ImgDirs, name \in ImgFileNames}
AllPaths == DocPaths \cup ImgPaths

Max(S) == CHOOSE x \in S : \A y \in S : y <= x
InitClock == Max({InitMtime(p) : p \in AllPaths})

(* ------------------------------- state -------------------------------- *)
VARIABLES
    touched,        \* paths modified since the start, with their mtime
    now,            \* the filesystem clock
    stateFile,      \* content of epstein_files/ingest_state.json
    blobs,          \* the storage bucket: blob key -> upload record
    remote,         \* the Firestore collections: collection -> id -> data
    pc,             \* where the publish process is
    idx,            \* position of the current loop
    force,          \* args.force
    only,           \* args.only ("all": the flag is absent)
    vector,         \* the Vector class could be imported
    state,          \* the state dict of main()
    batch,          \* the current WriteBatch: sequence of <<id, data>>
    pending_updates,
    eventsLeft,     \* environment events still allowed
    run,            \* what this run did so far (observation only)
    last,           \* summary of the previous run (observation only)
    published,      \* entity -> fingerprint of its last successful publish
                    \* (observation only)
    invFile,        \* inventory.json: [st, kind, data]
    procs,          \* the running pipeline tools: process -> local state
    disk,           \* url -> what exists on disk for it
    runsLeft,       \* tool runs still allowed
    crashesLeft,    \* interrupted writes still allowed
    obs,            \* what the tools did to the inventory (observation only)
    bakFile,        \* inventory.json.corrupted_bak: [st, kind, data]
    pic,            \* the files written next to one extracted image
    ocr_md,         \* the ocr.md next to one PDF: version, 0 when absent
    stepsLeft,      \* stage calls still allowed
    lastStep        \* what the last stage call did (observation only)

pubVars ==
    <<touched, now, stateFile, blobs, remote, pc, idx, force, only, vector,
      state, batch, pending_updates, eventsLeft, run, last, published>>
storeVars == <<invFile, procs, disk, runsLeft, crashesLeft, obs, bakFile>>
stageVars == <<pic, ocr_md, stepsLeft, lastStep>>
vars == <<pubVars, storeVars, stageVars>>

(* --------------------------- dict helpers ----------------------------- *)
EmptyMap == <<>>
\* dict.get(k, 0)
Get(m, k) == IF k \in DOMAIN m THEN m[k] ELSE 0
\* dict.update(p)
Update(m, p) ==
    [k \in (DOMAIN m) \cup (DOMAIN p) |-> IF k \in DOMAIN p THEN p[k] ELSE m[k]]
\* m[k] = v
Put(m, k, v) == [x \in (DOMAIN m) \cup {k} |-> IF x = k THEN v ELSE m[x]]

EmptyState == [documents |-> EmptyMap, images |-> EmptyMap, faces |-> EmptyMap]

(* ======================= the inventory file =========================== *)
\* the file links the crawl finds, in the order it finds them
Urls == 1..NUrls
\* extension of the file a url downloads to
UrlExt(u) == CASE u = 1 -> "zip" [] u = 2 -> "mov" [] OTHER -> "pdf"
Procs == {1, 2}

\* a parsable file holding the mapping d
OkFile(d) == [st |-> "ok", kind |-> "none", data |-> d]
\* open(INVENTORY_FILE, 'w'): the file exists and is empty
TruncatedFile == [st |-> "corrupt", kind |-> "empty", data |-> EmptyMap]
AbsentFile == [st |-> "absent", kind |-> "none", data |-> EmptyMap]

\* number of lines json.dump(d, indent=2) writes for the entries of d
RECURSIVE SizeFrom(_, _)
SizeFrom(d, u) ==
    IF u > NUrls + NPdfUrls THEN 0
    ELSE (IF u \in DOMAIN d THEN 2 + Cardinality(DOMAIN d[u]) ELSE 0)
         + SizeFrom(d, u + 1)
Size(d) == SizeFrom(d, 1)

\* the first j entries of d, in file order
Prefix(d, j) ==
    [u \in {x \in DOMAIN d : Cardinality({y \in DOMAIN d : y < x}) < j}
        |-> d[u]]

(* ---- load_inventory, tool by tool: [raised, inv] ---- *)
\* classify_files, extract_content, analyze_images, detect_faces:
\* try / except Exception: return {}
load_inventory(f) ==
    [raised |-> FALSE, inv |-> IF f.st = "ok" THEN f.data ELSE EmptyMap]
\* scrape_epstein: exists and size > 0, json.load in a try; the global
\* inventory stays {} otherwise
scraper_load_inventory(f) ==
    [raised |-> FALSE, inv |-> IF f.st = "ok" THEN f.data ELSE EmptyMap]
\* transcribe_media: os.path.exists, then json.load outside any try
transcribe_load_inventory(f) ==
    IF f.st = "absent" THEN [raised |-> FALSE, inv |-> EmptyMap]
    ELSE IF f.st = "ok" THEN [raised |-> FALSE, inv |-> f.data]
    ELSE [raised |-> TRUE, inv |-> EmptyMap]
\* analyze_pdfs: open and json.load outside any try
analyze_pdfs_load_inventory(f) ==
    IF f.st = "ok" THEN [raised |-> FALSE, inv |-> f.data]
    ELSE [raised |-> TRUE, inv |-> EmptyMap]
\* ingest_to_firebase main: "Inventory not found." and return when the
\* file is absent, json.load outside any try
ingest_load_inventory(f) ==
    IF f.st = "absent" THEN [raised |-> FALSE, inv |-> EmptyMap]
    ELSE IF f.st = "ok" THEN [raised |-> FALSE, inv |-> f.data]
    ELSE [raised |-> TRUE, inv |-> EmptyMap]

(* ---- the local state of a tool ---- *)
NoUpd ==
    [key |-> 0, partial |-> EmptyMap, base |-> EmptyMap,
     by |-> [key |-> 0, partial |-> EmptyMap]]
IdleProc ==
    [tool |-> "none", pc |-> "idle", inv |-> EmptyMap, k |-> 0,
     ret |-> "idle", buf |-> EmptyMap, upd |-> NoUpd, todo |-> {},
     pre |-> AbsentFile, overwrite |-> FALSE]

\* meta.get(f) of a text field; "" stands for None
Field(meta, f) == IF f \in DOMAIN meta THEN meta[f] ELSE ""
\* os.path.exists(meta["local_path"])
HasLocal(meta) == "local_path" \in DOMAIN meta
LocalExists(meta, u) == HasLocal(meta) /\ meta.local_path <= disk[u].files

\* the next url of the loop "for url, meta in inventory.items()"
NextIn(inv, k) ==
    IF \E u \in DOMAIN inv : u >= k
    THEN CHOOSE u \in DOMAIN inv : u >= k /\ \A v \in DOMAIN inv : v >= k => u <= v
    ELSE 0

\* the update_item of p lands: every other update_item that has loaded and
\* not written yet remembers which update overtook it (observation only)
Overtaken(ps, p) ==
    [q \in Procs |->
        IF /\ q # p /\ ps[p].upd.key # 0
           /\ ps[q].pc \in {"open", "dump"} /\ ps[q].upd.key # 0
        THEN [ps[q] EXCEPT !.upd.by = [key |-> ps[p].upd.key,
                                       partial |-> ps[p].upd.partial]]
        ELSE ps[q]]

\* the record r does not hold the fields of partial
Lacks(r, partial) == \E f \in DOMAIN partial : f \notin DOMAIN r \/ r[f] # partial[f]

\* update_item(url, data) with inv[url] = data in place of the merge
update_item_replace(f, url, data) ==
    LET inv == IF f.st = "ok" THEN f.data ELSE EmptyMap
    IN  IF url \in DOMAIN inv
        THEN [write |-> TRUE, base |-> inv, buf |-> Put(inv, url, data)]
        ELSE [write |-> FALSE, base |-> inv, buf |-> inv]

\* mutant: the "if url in inv" test is missing
update_item_unguarded(f, url, data) ==
    LET inv == load_inventory(f).inv
    IN  [write |-> TRUE, base |-> inv,
         buf |-> Put(inv, url, IF url \in DOMAIN inv
                               THEN Update(inv[url], data) ELSE data)]

\* update_item(url, data): load, merge into the record, then write
update_item(f, url, data) ==
    LET inv == load_inventory(f).inv
    IN  IF url \in DOMAIN inv
        THEN [write |-> TRUE, base |-> inv,
              buf |-> Put(inv, url, Update(inv[url], data))]
        ELSE [write |-> FALSE, base |-> inv, buf |-> inv]

\* the tool at p returns from its loop body: an update_item that writes goes
\* through open and dump, otherwise the loop goes on
AfterStep(pr, r, url, data, nk) ==
    IF r.write
    THEN [pr EXCEPT !.pc = "open", !.ret = "loop", !.k = nk, !.buf = r.buf,
                    !.upd = [key |-> url, partial |-> data, base |-> r.base,
                             by |-> NoUpd.by]]
    ELSE [pr EXCEPT !.pc = "loop", !.k = nk, !.upd = NoUpd]

(* ---- what the claims read ---- *)
\* the items a load returns, after repair_inventory when the file needs it
StoredKeys(f) ==
    IF f.st = "ok" \/ (f.st = "corrupt" /\ f.kind \in {"between", "extra"})
    THEN DOMAIN f.data ELSE {}
Downloaded(f) ==
    {u \in StoredKeys(f) : Field(f.data[u], "status") = "downloaded"}
InitObs(f) ==
    [fatal |-> {}, ever |-> StoredKeys(f), again |-> {},
     wasDl |-> Downloaded(f), dropped |-> {}]

(* ---- the store after a crawl and a download of every url ---- *)
AllDownloaded ==
    [u \in Urls |-> [status |-> "downloaded", local_path |-> 1]]
\* what a PDF file is to fitz: it has a text layer, it has none, or
\* fitz.open raises on it
PdfKinds == {"text", "scanned", "corrupt"}
\* the images of an extracted document
Pics == 1..NPics
\* files: copies of the download; dir: the extraction directory; vtt: the
\* transcript; pdf: the kind of a PDF; text, imgs: how often content.txt
\* and the images were written; analysed: the images with an analysis.json
NoDisk ==
    [files |-> 0, dir |-> FALSE, vtt |-> FALSE, pdf |-> "none",
     text |-> 0, imgs |-> 0, analysed |-> {}]
\* the PDF items of the document stages' corpus
PdfUrls == (NUrls + 1) .. (NUrls + NPdfUrls)

\* a tool starts: one more run; the second process only runs next to the
\* first one (two runs of one tool are told apart by nothing else)
Begin(p) ==
    /\ procs[p].tool = "none"
    /\ \A q \in Procs : q < p => procs[q].tool # "none"
    /\ runsLeft > 0
    /\ runsLeft' = runsLeft - 1

(* ---- scrape_epstein.py ---- *)
\* main: load_inventory(), then the crawl unless --no-crawl
ScraperStart(p) ==
    /\ Begin(p)
    /\ \E no_crawl \in BOOLEAN :
         procs' = [procs EXCEPT ![p] =
            [IdleProc EXCEPT !.tool = "scraper",
                             !.inv = scraper_load_inventory(invFile).inv,
                             !.pc = IF no_crawl THEN "loop" ELSE "crawl",
                             !.k = 1]]
    /\ UNCHANGED <<invFile, disk, crashesLeft, obs>>
    /\ UNCHANGED <<bakFile, pubVars, stageVars>>

\* scrape_page: a file link is added as pending when its url is not in the
\* inventory, and the inventory is saved
ScrapeFile(p) ==
    /\ procs[p].tool = "scraper" /\ procs[p].pc = "crawl"
    /\ LET pr == procs[p]
           u == pr.k
       IN  IF u > NUrls
           THEN procs' = [procs EXCEPT ![p] = [pr EXCEPT !.pc = "loop", !.k = 1]]
           ELSE \E found \in BOOLEAN :
                  IF found /\ u \notin DOMAIN pr.inv
                  THEN LET inv2 == Put(pr.inv, u, [status |-> "pending"])
                       IN  procs' = [procs EXCEPT ![p] =
                              [pr EXCEPT !.inv = inv2, !.buf = inv2,
                                         !.pc = "open", !.ret = "crawl",
                                         !.k = u + 1, !.upd = NoUpd]]
                  ELSE procs' = [procs EXCEPT ![p] = [pr EXCEPT !.k = u + 1]]
    /\ UNCHANGED <<invFile, disk, runsLeft, crashesLeft, obs>>
    /\ UNCHANGED <<bakFile, pubVars, stageVars>>

DownloadOutcomes == {"ok", "failed", "failed_late"}

\* mutant: an item whose download failed in an earlier run is passed over
DownloadStepNoRetry(p) ==
    /\ procs[p].tool = "scraper" /\ procs[p].pc = "loop"
    /\ LET pr == procs[p]
           u == NextIn(pr.inv, pr.k)
       IN  /\ u # 0
           /\ LET meta == pr.inv[u]
              IN  IF Field(meta, "status") \in {"downloaded", "failed"}
                  THEN /\ procs' = [procs EXCEPT ![p] = [pr EXCEPT !.k = u + 1]]
                       /\ UNCHANGED <<disk, obs>>
                  ELSE IF LocalExists(meta, u)
                  THEN /\ procs' = [procs EXCEPT ![p] =
                              [pr EXCEPT !.k = u + 1,
                                         !.inv = Put(pr.inv, u,
                                            Update(meta, [status |-> "downloaded"]))]]
                       /\ UNCHANGED <<disk, obs>>
                  ELSE \E outcome \in DownloadOutcomes :
                         LET n == disk[u].files + 1
                             meta2 ==
                               CASE outcome = "ok" ->
                                      Update(meta, [status |-> "downloaded",
                                                    local_path |-> n])
                                 [] outcome = "failed_late" ->
                                      Update(meta, [status |-> "failed",
                                                    local_path |-> n])
                                 [] OTHER -> Update(meta, [status |-> "failed"])
                             inv2 == Put(pr.inv, u, meta2)
                         IN  /\ disk' = IF outcome = "failed" THEN disk
                                        ELSE [disk EXCEPT ![u].files = n]
                             /\ obs' = IF u \in obs.wasDl
                                       THEN [obs EXCEPT !.again = @ \cup {u}]
                                       ELSE obs
                             /\ procs' = [procs EXCEPT ![p] =
                                   [pr EXCEPT !.inv = inv2, !.buf = inv2,
                                              !.pc = "open", !.ret = "loop",
                                              !.k = u + 1, !.upd = NoUpd]]
    /\ UNCHANGED <<invFile, runsLeft, crashesLeft>>
    /\ UNCHANGED <<bakFile, pubVars, stageVars>>

\* the download loop of main with download_file and save_inventory
DownloadStep(p) ==
    /\ procs[p].tool = "scraper" /\ procs[p].pc = "loop"
    /\ LET pr == procs[p]
           u == NextIn(pr.inv, pr.k)
       IN  /\ u # 0
           /\ LET meta == pr.inv[u]
              IN  IF Field(meta, "status") = "downloaded"
                  THEN /\ procs' = [procs EXCEPT ![p] = [pr EXCEPT !.k = u + 1]]
                       /\ UNCHANGED <<disk, obs>>
                  ELSE IF LocalExists(meta, u)
                  THEN /\ procs' = [procs EXCEPT ![p] =
                              [pr EXCEPT !.k = u + 1,
                                         !.inv = Put(pr.inv, u,
                                            Update(meta, [status |-> "downloaded"]))]]
                       /\ UNCHANGED <<disk, obs>>
                  ELSE \E outcome \in DownloadOutcomes :
                         LET n == disk[u].files + 1
                             meta2 ==
                               CASE outcome = "ok" ->
                                      Update(meta, [status |-> "downloaded",
                                                    local_path |-> n])
                                 [] outcome = "failed_late" ->
                                      Update(meta, [status |-> "failed",
                                                    local_path |-> n])
                                 [] OTHER -> Update(meta, [status |-> "failed"])
                             inv2 == Put(pr.inv, u, meta2)
                         IN  /\ disk' = IF outcome = "failed" THEN disk
                                        ELSE [disk EXCEPT ![u].files = n]
                             /\ obs' = IF u \in obs.wasDl
                                       THEN [obs EXCEPT !.again = @ \cup {u}]
                                       ELSE obs
                             /\ procs' = [procs EXCEPT ![p] =
                                   [pr EXCEPT !.inv = inv2, !.buf = inv2,
                                              !.pc = "open", !.ret = "loop",
                                              !.k = u + 1, !.upd = NoUpd]]
    /\ UNCHANGED <<invFile, runsLeft, crashesLeft>>
    /\ UNCHANGED <<bakFile, pubVars, stageVars>>

(* ---- classify_files.py ---- *)
ClassifyStart(p) ==
    /\ Begin(p)
    /\ procs' = [procs EXCEPT ![p] =
          [IdleProc EXCEPT !.tool = "classify", !.pc = "loop", !.k = 1,
                           !.inv = load_inventory(invFile).inv]]
    /\ UNCHANGED <<invFile, disk, crashesLeft, obs>>
    /\ UNCHANGED <<bakFile, pubVars, stageVars>>

\* analyze_pdf(filepath)["classification"]: more than 50 characters a page
\* is "text"; any exception is caught and gives "error"
analyze_pdf(kind) ==
    CASE kind = "text" -> "text"
      [] kind = "scanned" -> "scanned"
      [] OTHER -> "error"

\* mutant: the status of the item is not looked at
ClassifyStepAnyStatus(p) ==
    /\ procs[p].tool = "classify" /\ procs[p].pc = "loop"
    /\ LET pr == procs[p]
           u == NextIn(pr.inv, pr.k)
       IN  /\ u # 0
           /\ LET meta == pr.inv[u]
              IN  IF \/ "classification" \in DOMAIN meta
                     \/ ~LocalExists(meta, u)
                  THEN procs' = [procs EXCEPT ![p] = [pr EXCEPT !.k = u + 1]]
                  ELSE LET data == [classification |->
                                       IF UrlExt(u) = "pdf"
                                       THEN analyze_pdf(disk[u].pdf) ELSE "other"]
                       IN  procs' = [procs EXCEPT ![p] =
                              AfterStep(pr, update_item(invFile, u, data),
                                        u, data, u + 1)]
    /\ UNCHANGED <<invFile, disk, runsLeft, crashesLeft, obs>>
    /\ UNCHANGED <<bakFile, pubVars, stageVars>>

ClassifyStep(p) ==
    /\ procs[p].tool = "classify" /\ procs[p].pc = "loop"
    /\ LET pr == procs[p]
           u == NextIn(pr.inv, pr.k)
       IN  /\ u # 0
           /\ LET meta == pr.inv[u]
              IN  IF \/ "classification" \in DOMAIN meta
                     \/ Field(meta, "status") # "downloaded"
                     \/ ~LocalExists(meta, u)
                  THEN procs' = [procs EXCEPT ![p] = [pr EXCEPT !.k = u + 1]]
                  ELSE LET data == [classification |->
                                       IF UrlExt(u) = "pdf"
                                       THEN analyze_pdf(disk[u].pdf) ELSE "other"]
                       IN  procs' = [procs EXCEPT ![p] =
                              AfterStep(pr, update_item(invFile, u, data),
                                        u, data, u + 1)]
    /\ UNCHANGED <<invFile, disk, runsLeft, crashesLeft, obs>>
    /\ UNCHANGED <<bakFile, pubVars, stageVars>>

(* ---- extract_content.py ---- *)
ExtractStart(p) ==
    /\ Begin(p)
    /\ procs' = [procs EXCEPT ![p] =
          [IdleProc EXCEPT !.tool = "extract", !.pc = "loop", !.k = 1,
                           !.inv = load_inventory(invFile).inv]]
    /\ UNCHANGED <<invFile, disk, crashesLeft, obs>>
    /\ UNCHANGED <<bakFile, pubVars, stageVars>>

UnzipOutcomes == {"ok", "failed", "failed_partial"}

\* main, lines 106-117: the item is not marked done, or its directory or
\* (for a PDF) its content.txt is gone
should_process(meta, u) ==
    \/ Field(meta, "extraction_status") # "done"
    \/ ~disk[u].dir
    \/ (UrlExt(u) = "pdf" /\ disk[u].text = 0)

\* the item reaches extract_content or the unzip, and extract_content does
\* not return at its first two tests
ExtractEligible(meta, u) ==
    /\ HasLocal(meta)
    /\ UrlExt(u) \in {"pdf", "zip"}
    /\ should_process(meta, u)
    /\ Field(meta, "status") = "downloaded"
    /\ UrlExt(u) = "pdf" => (LocalExists(meta, u) /\ "classification" \in DOMAIN meta)

\* meta["extraction_status"] = "done"; meta["extraction_dir"] = target_dir
Extracted == [extraction_status |-> "done", extraction_dir |-> 1]

ExtractStep(p) ==
    /\ procs[p].tool = "extract" /\ procs[p].pc = "loop"
    /\ LET pr == procs[p]
           u == NextIn(pr.inv, pr.k)
       IN  /\ u # 0
           /\ LET meta == pr.inv[u]
                  skip == /\ procs' = [procs EXCEPT ![p] = [pr EXCEPT !.k = u + 1]]
                          /\ UNCHANGED disk
              IN  IF ~ExtractEligible(meta, u)
                  THEN skip
                  ELSE IF UrlExt(u) = "pdf"
                  THEN \* extract_content: makedirs, fitz.open, content.txt when
                       \* there is text, the images; the record changes in
                       \* memory only. An exception of fitz.open is caught
                       \* nowhere and ends the run.
                       IF disk[u].pdf = "corrupt"
                       THEN /\ disk' = [disk EXCEPT ![u].dir = TRUE]
                            /\ procs' = [procs EXCEPT ![p] = IdleProc]
                       ELSE /\ disk' = [disk EXCEPT
                                  ![u].dir = TRUE,
                                  ![u].text = IF /\ disk[u].pdf = "text"
                                                 /\ meta.classification \in
                                                      {"text", "mixed", "scanned"}
                                              THEN @ + 1 ELSE @,
                                  ![u].imgs = @ + 1]
                            /\ procs' = [procs EXCEPT ![p] =
                                  [pr EXCEPT !.k = u + 1,
                                             !.inv = Put(pr.inv, u,
                                                         Update(meta, Extracted))]]
                  ELSE \E outcome \in UnzipOutcomes :
                         IF outcome = "ok" /\ LocalExists(meta, u)
                         THEN LET meta2 == Update(meta, Extracted)
                              IN  /\ disk' = [disk EXCEPT ![u].dir = TRUE]
                                  /\ procs' = [procs EXCEPT ![p] =
                                        AfterStep([pr EXCEPT !.inv = Put(pr.inv, u, meta2)],
                                                  update_item(invFile, u, meta2),
                                                  u, meta2, u + 1)]
                         ELSE /\ disk' = IF outcome = "failed_partial" /\ LocalExists(meta, u)
                                         THEN [disk EXCEPT ![u].dir = TRUE]
                                         ELSE disk
                              /\ procs' = [procs EXCEPT ![p] = [pr EXCEPT !.k = u + 1]]
    /\ UNCHANGED <<invFile, runsLeft, crashesLeft, obs>>
    /\ UNCHANGED <<bakFile, pubVars, stageVars>>

(* ---- analyze_images.py ---- *)
\* main: --overwrite, the LM Studio check, load_inventory()
AnalyzeStart(p) ==
    /\ Begin(p)
    /\ \E lm_studio_up \in BOOLEAN, overwrite \in BOOLEAN :
         procs' = [procs EXCEPT ![p] =
            IF lm_studio_up
            THEN [IdleProc EXCEPT !.tool = "analyze", !.pc = "loop", !.k = 1,
                                  !.overwrite = overwrite,
                                  !.inv = load_inventory(invFile).inv]
            ELSE IdleProc]
    /\ UNCHANGED <<invFile, disk, crashesLeft, obs>>
    /\ UNCHANGED <<bakFile, pubVars, stageVars>>

\* the images directory of the item exists and holds images
HasImages(u) == IF UrlExt(u) = "pdf" THEN disk[u].imgs > 0 ELSE disk[u].dir

\* line 248: "partial" if analyzed_count < len(images) else "done", where
\* analyzed_count counts the files this call wrote
StatusOf(analyzed_count) ==
    IF analyzed_count < NPics THEN "partial" ELSE "done"

\* process_directory(url, meta, overwrite): every image without an
\* analysis.json (every image with --overwrite) is sent to the model;
\* written are the ones whose reply parses
AnalyzeStep(p) ==
    /\ procs[p].tool = "analyze" /\ procs[p].pc = "loop"
    /\ LET pr == procs[p]
           u == NextIn(pr.inv, pr.k)
       IN  /\ u # 0
           /\ LET meta == pr.inv[u]
                  sent == IF pr.overwrite THEN Pics ELSE Pics \ disk[u].analysed
              IN  IF \/ Field(meta, "status") # "downloaded"
                     \/ ~disk[u].dir
                     \/ ~("extraction_status" \in DOMAIN meta \/ HasLocal(meta))
                     \/ ~HasImages(u)
                  THEN /\ procs' = [procs EXCEPT ![p] = [pr EXCEPT !.k = u + 1]]
                       /\ UNCHANGED disk
                  ELSE \E written \in SUBSET sent :
                         LET analysed == disk[u].analysed \cup written
                             analyzed_count == Cardinality(written)
                             meta2 == Update(meta,
                                 [image_analysis_status |->
                                     StatusOf(analyzed_count)])
                         IN  /\ disk' = [disk EXCEPT ![u].analysed = analysed]
                             /\ procs' = [procs EXCEPT ![p] =
                                   IF analyzed_count > 0
                                   THEN AfterStep([pr EXCEPT !.inv = Put(pr.inv, u, meta2)],
                                                  update_item(invFile, u, meta2),
                                                  u, meta2, u + 1)
                                   ELSE [pr EXCEPT !.k = u + 1]]
    /\ UNCHANGED <<invFile, runsLeft, crashesLeft, obs>>
    /\ UNCHANGED <<bakFile, pubVars, stageVars>>

(* ---- transcribe_media.py ---- *)
MediaExts == {"mp3", "wav", "mp4", "m4a", "mov"}

\* main up to the loop: load_inventory() raises on a file that does not
\* parse; to_process is built once; the models may fail to load
TranscribeStart(p) ==
    /\ Begin(p)
    /\ LET l == transcribe_load_inventory(invFile)
           to_process ==
               {u \in DOMAIN l.inv :
                   /\ LocalExists(l.inv[u], u)
                   /\ UrlExt(u) \in MediaExts
                   /\ (~disk[u].vtt
                       \/ Field(l.inv[u], "transcription_status") # "done")}
       IN  /\ \E models_loaded \in BOOLEAN :
                procs' = [procs EXCEPT ![p] =
                   IF l.raised \/ to_process = {} \/ ~models_loaded
                   THEN IdleProc
                   ELSE [IdleProc EXCEPT !.tool = "transcribe", !.pc = "loop",
                                         !.k = 1, !.inv = l.inv,
                                         !.todo = to_process]]
           /\ obs' = [obs EXCEPT !.fatal = IF l.raised THEN @ \cup {"transcribe"}
                                           ELSE @]
    /\ UNCHANGED <<invFile, disk, crashesLeft>>
    /\ UNCHANGED <<bakFile, pubVars, stageVars>>

\* one file of to_process: the VTT, then reload, set two fields, save
TranscribeStep(p) ==
    /\ procs[p].tool = "transcribe" /\ procs[p].pc = "loop"
    /\ LET pr == procs[p]
           u == NextIn([x \in pr.todo |-> TRUE], pr.k)
       IN  /\ u # 0
           /\ \E transcribed \in BOOLEAN :
                IF ~transcribed
                THEN /\ procs' = [procs EXCEPT ![p] = [pr EXCEPT !.k = u + 1]]
                     /\ UNCHANGED disk
                ELSE LET l == transcribe_load_inventory(invFile)
                         data == [transcription_status |-> "done"]
                     IN  /\ disk' = [disk EXCEPT ![u].vtt = TRUE]
                         /\ procs' = [procs EXCEPT ![p] =
                               AfterStep(pr,
                                  IF ~l.raised /\ u \in DOMAIN l.inv
                                  THEN [write |-> TRUE, base |-> l.inv,
                                        buf |-> Put(l.inv, u, Update(l.inv[u], data))]
                                  ELSE [write |-> FALSE, base |-> l.inv, buf |-> l.inv],
                                  u, data, u + 1)]
    /\ UNCHANGED <<invFile, runsLeft, crashesLeft, obs>>
    /\ UNCHANGED <<bakFile, pubVars, stageVars>>

(* ---- repair_inventory.py ---- *)
\* repair(): the file is copied to BACKUP_FILE unless that file exists; a
\* file that parses is left alone; "Extra data" keeps the valid part;
\* otherwise the text is cut at its last comma and closed
Repair(p) ==
    /\ Begin(p)
    /\ procs' = [procs EXCEPT ![p] =
          IF invFile.st = "corrupt" /\ invFile.kind \in {"extra", "between"}
          THEN [IdleProc EXCEPT !.tool = "repair", !.pc = "open",
                                !.ret = "idle", !.buf = invFile.data]
          ELSE IdleProc]
    /\ bakFile' = IF invFile.st # "absent" /\ bakFile.st = "absent"
                  THEN invFile ELSE bakFile
    /\ UNCHANGED <<invFile, disk, crashesLeft, obs>>
    /\ UNCHANGED <<pubVars, stageVars>>

(* ---- tools that only read the inventory ---- *)
\* ingest_to_firebase main, lines 537-545
PublishLoad(p) ==
    /\ Begin(p)
    /\ obs' = [obs EXCEPT !.fatal = IF ingest_load_inventory(invFile).raised
                                    THEN @ \cup {"publish"} ELSE @]
    /\ UNCHANGED <<invFile, procs, disk, crashesLeft>>
    /\ UNCHANGED <<bakFile, pubVars, stageVars>>

\* analyze_pdfs main
AnalyzePdfsLoad(p) ==
    /\ Begin(p)
    /\ obs' = [obs EXCEPT !.fatal = IF analyze_pdfs_load_inventory(invFile).raised
                                    THEN @ \cup {"analyze_pdfs"} ELSE @]
    /\ UNCHANGED <<invFile, procs, disk, crashesLeft>>
    /\ UNCHANGED <<bakFile, pubVars, stageVars>>

(* ---- writing the file: open(INVENTORY_FILE, 'w'), then json.dump ---- *)
WriteOpen(p) ==
    /\ procs[p].pc = "open"
    /\ invFile' = TruncatedFile
    /\ procs' = [procs EXCEPT ![p] = [@ EXCEPT !.pc = "dump", !.pre = invFile]]
    /\ UNCHANGED <<disk, runsLeft, crashesLeft, obs>>
    /\ UNCHANGED <<bakFile, pubVars, stageVars>>

\* what is in the file when the dump starts at offset 0
Length(f) ==
    IF f.st = "absent" \/ f.kind = "empty" THEN 0
    ELSE Size(f.data) + (IF f.kind = "inside" THEN 1 ELSE 0)

\* the bytes of buf replace the start of the file; a longer content another
\* writer left in the meantime stays behind them
Dumped(f, buf) ==
    IF Length(f) > Size(buf)
    THEN [st |-> "corrupt", kind |-> "extra", data |-> buf]
    ELSE OkFile(buf)

\* a write that merges into what the file held when it was opened
ContentReloaded(pr, f) ==
    IF pr.upd.key # 0 /\ pr.pre.st = "ok" /\ pr.upd.key \in DOMAIN pr.pre.data
    THEN Put(pr.pre.data, pr.upd.key,
             Update(pr.pre.data[pr.upd.key], pr.upd.partial))
    ELSE pr.buf

\* json.dump(inv, f): the mapping built when update_item loaded
Content(pr, f) == pr.buf

WriteDump(p) ==
    /\ procs[p].pc = "dump"
    /\ LET pr == procs[p]
           f2 == Dumped(invFile, Content(pr, invFile))
           done == [pr EXCEPT !.pc = pr.ret, !.upd = NoUpd, !.buf = EmptyMap,
                              !.pre = AbsentFile]
       IN  /\ invFile' = f2
           /\ procs' = [Overtaken(procs, p) EXCEPT ![p] =
                           IF pr.ret = "idle" THEN IdleProc ELSE done]
           /\ obs' = [obs EXCEPT !.ever = @ \cup StoredKeys(f2),
                                 !.dropped =
                                    IF /\ pr.upd.by.key \notin {0, pr.upd.key}
                                       /\ f2.st = "ok"
                                       /\ pr.upd.by.key \in DOMAIN f2.data
                                       /\ Lacks(f2.data[pr.upd.by.key], pr.upd.by.partial)
                                    THEN @ \cup {pr.upd.by.key} ELSE @,
                                 !.wasDl = @ \cup Downloaded(f2)]
    /\ UNCHANGED <<disk, runsLeft, crashesLeft>>
    /\ UNCHANGED <<bakFile, pubVars, stageVars>>

\* the process dies between open and the end of json.dump: the file keeps
\* what was written so far
CrashKinds == {"empty", "between", "inside"}
Crash(p) ==
    /\ procs[p].pc = "dump"
    /\ crashesLeft > 0
    /\ crashesLeft' = crashesLeft - 1
    /\ \E kind \in CrashKinds, j \in 0..NUrls :
         /\ j < Cardinality(DOMAIN procs[p].buf)
         /\ (kind = "empty") = (j = 0)
         /\ invFile' = [st |-> "corrupt", kind |-> kind,
                        data |-> Prefix(procs[p].buf, j)]
         /\ obs' = [obs EXCEPT !.ever = StoredKeys(invFile')]
    /\ procs' = [procs EXCEPT ![p] = IdleProc]
    /\ UNCHANGED <<disk, runsLeft>>
    /\ UNCHANGED <<bakFile, pubVars, stageVars>>

\* the loop of a tool is over
Finish(p) ==
    /\ procs[p].pc = "loop"
    /\ NextIn(IF procs[p].tool = "transcribe"
              THEN [x \in procs[p].todo |-> TRUE] ELSE procs[p].inv,
              procs[p].k) = 0
    /\ procs' = [procs EXCEPT ![p] = IdleProc]
    /\ UNCHANGED <<invFile, disk, runsLeft, crashesLeft, obs>>
    /\ UNCHANGED <<bakFile, pubVars, stageVars>>

\* no tool of the pipeline runs and there is no inventory
StoreUnused ==
    /\ invFile = AbsentFile
    /\ disk = [u \in Urls |-> NoDisk]
    /\ obs = InitObs(AbsentFile)
    /\ procs = [p \in Procs |-> IdleProc]
    /\ runsLeft = 0
    /\ crashesLeft = 0
    /\ bakFile = AbsentFile

\* a fresh checkout, or the inventory after a crawl and a download of every
\* url
StoreStart ==
    /\ \E fresh \in BOOLEAN, kind \in PdfKinds :
         /\ invFile = IF fresh THEN AbsentFile ELSE OkFile(AllDownloaded)
         /\ disk = [u \in Urls |->
                      [NoDisk EXCEPT !.files = IF fresh THEN 0 ELSE 1,
                                     !.pdf = IF UrlExt(u) = "pdf" THEN kind
                                             ELSE "none"]]
         /\ obs = InitObs(IF fresh THEN AbsentFile ELSE OkFile(AllDownloaded))
    /\ procs = [p \in Procs |-> IdleProc]
    /\ runsLeft = MaxRuns
    /\ crashesLeft = MaxCrashes
    /\ bakFile = AbsentFile

\* a downloaded corpus; an earlier unzip may have left its directory
RaceStart ==
    /\ invFile = OkFile(AllDownloaded)
    /\ \E unzipped \in BOOLEAN, kind \in PdfKinds :
         disk = [u \in Urls |->
                   [NoDisk EXCEPT !.files = 1,
                                  !.dir = unzipped /\ UrlExt(u) = "zip",
                                  !.pdf = IF UrlExt(u) = "pdf" THEN kind
                                          ELSE "none"]]
    /\ obs = InitObs(OkFile(AllDownloaded))
    /\ procs = [p \in Procs |-> IdleProc]
    /\ runsLeft = MaxStageRuns
    /\ crashesLeft = 0
    /\ bakFile = AbsentFile

\* a corpus of downloaded PDF files, not yet classified
PipelineStart ==
    /\ invFile = OkFile([u \in PdfUrls |->
                            [status |-> "downloaded", local_path |-> 1]])
    /\ \E kinds \in [PdfUrls -> PdfKinds] :
         disk = [u \in PdfUrls |->
                   [NoDisk EXCEPT !.files = 1, !.pdf = kinds[u]]]
    /\ obs = InitObs(invFile)
    /\ procs = [p \in Procs |-> IdleProc]
    /\ runsLeft = MaxPipelineRuns
    /\ crashesLeft = 0
    /\ bakFile = AbsentFile

(* =================== the per-image artifact stages ==================== *)
\* analyze_images, detect_faces, filter_photos, perform_ocr and
\* process_images each work on the files next to one image
\* images/<stem>.jpg; perform_pdf_ocr works on the ocr.md next to one PDF.
\* A step is one call of the stage's function on that image.

\* an analysis file: v = 0 stands for a file that does not exist
NoAnalysis == [v |-> 0, has_faces |-> FALSE, needs_ocr |-> FALSE]
\* what an earlier version of analyze_images wrote
OldAnalysis == [v |-> 1, has_faces |-> TRUE, needs_ocr |-> TRUE]
NoPic ==
    [old_json |-> NoAnalysis,   \* <image_path>.json
     old_txt |-> 0,             \* <image_path>.txt
     dir |-> FALSE,             \* <image_stem>/
     analysis |-> NoAnalysis,   \* <image_stem>/analysis.json
     txt |-> 0,                 \* <image_stem>/analysis.txt
     faces |-> 0,               \* <image_stem>/faces.json
     ocr |-> 0,                 \* <image_stem>/ocr.txt
     eval |-> 0,                \* <image_stem>/eval.json
     avif |-> 0,                \* <image_stem>/full.avif
     sizes |-> {},              \* <image_stem>/<name>.avif, name in SIZES
     torn |-> {},               \* the files a killed stage left incomplete
     fallback |-> FALSE,        \* analysis.txt was written for a reply that
                                \* did not parse (observation only)
     moved |-> FALSE]           \* a sidecar was moved (observation only)
NoStep ==
    [stage |-> "none", overwrite |-> FALSE, fault |-> FALSE,
     invoked |-> FALSE, moved |-> FALSE]

\* the stages are not running
StageUnused ==
    /\ pic = NoPic
    /\ ocr_md = 0
    /\ stepsLeft = 0
    /\ lastStep = NoStep

\* the image has been extracted; files of an earlier version of the tool
\* and of an earlier analysis may lie next to it
StageStart ==
    /\ \E oj \in {NoAnalysis, OldAnalysis}, ot \in {0, 1},
          an \in {NoAnalysis, OldAnalysis} :
          pic = [NoPic EXCEPT !.old_json = oj, !.old_txt = ot,
                              !.analysis = an, !.dir = (an.v > 0)]
    /\ ocr_md = 0
    /\ stepsLeft = MaxStageSteps
    /\ lastStep = NoStep

\* the version of a file written over version v
NewV(v) == v + 1

\* a check that skips every item whose artifact exists
SkipDoneAlways(exists, overwrite) == exists
\* "if os.path.exists(artifact) and not overwrite": the item is done
SkipDone(exists, overwrite) == exists /\ ~overwrite

\* os.rename(old, new) whatever is at new
MigrateAlways(old, new, absent, rename_ok) ==
    IF old # absent /\ rename_ok
    THEN [old |-> absent, new |-> old] ELSE [old |-> old, new |-> new]
\* analyze_images 122-141: the old file is moved when the new one does not
\* exist; an OSError of os.rename is printed and the files stay
Migrate(old, new, absent, rename_ok) ==
    IF old # absent /\ new = absent /\ rename_ok
    THEN [old |-> absent, new |-> old] ELSE [old |-> old, new |-> new]

\* analysis.json exists and json.load reads it (detect_faces 72-80,
\* perform_ocr 80-85)
Parses(a) == a.analysis.v > 0 /\ "analysis.json" \notin a.torn

\* one call of a stage function: fault says that an input of the step (a
\* failing rename, a dry run, an unreadable file, an empty reply) kept the
\* stage from writing; invoked that the work function was called
StageStep(stage, overwrite, fault, invoked, moved) ==
    /\ stepsLeft > 0
    /\ stepsLeft' = stepsLeft - 1
    /\ lastStep' = [stage |-> stage, overwrite |-> overwrite,
                    fault |-> fault, invoked |-> invoked, moved |-> moved]
    /\ UNCHANGED <<pubVars, storeVars>>

AnalysisReplies == {"none", "json", "text"}

\* analyze_images.process_directory, the body of the loop over the images:
\* makedirs, the migration of both old files, the skip, analyze_image and
\* the file its reply is saved to. Inputs the step does not read are fixed.
AnalyzeImage ==
    \E overwrite \in BOOLEAN, rename_ok \in BOOLEAN,
       reply \in AnalysisReplies, has_faces \in BOOLEAN, needs_ocr \in BOOLEAN :
        LET a == pic
            mj == Migrate(a.old_json, a.analysis, NoAnalysis, rename_ok)
            mt == Migrate(a.old_txt, a.txt, 0, rename_ok)
            moved == mj.old # a.old_json
            skip == SkipDone(mj.new.v > 0, overwrite)
            b == [a EXCEPT !.dir = TRUE, !.old_json = mj.old,
                           !.analysis = mj.new, !.old_txt = mt.old,
                           !.txt = mt.new, !.moved = @ \/ moved]
        IN  /\ (reply = "json" /\ ~skip) \/ (has_faces /\ needs_ocr)
            /\ (~skip) \/ reply = "none"
            /\ rename_ok \/ a.old_json.v > 0 \/ a.old_txt > 0
            /\ pic' =
                  IF skip \/ reply = "none" THEN b
                  ELSE IF reply = "json"
                  THEN [b EXCEPT !.analysis =
                          [v |-> NewV(b.analysis.v), has_faces |-> has_faces,
                           needs_ocr |-> needs_ocr],
                                 !.torn = @ \ {"analysis.json"}]
                  ELSE [b EXCEPT !.txt = NewV(b.txt), !.fallback = TRUE]
            /\ StageStep("analyze", overwrite, ~rename_ok, ~skip, moved)
            /\ UNCHANGED ocr_md

FaceReplies == {"written", "unreadable", "error"}

\* detect_faces.process_image_directory: analysis.json with has_faces, the
\* skip, cv2.imread, app.get and faces.json
DetectFaces ==
    \E overwrite \in BOOLEAN, reply \in FaceReplies :
        LET a == pic
            eligible == Parses(a) /\ a.analysis.has_faces
            skip == SkipDone(a.faces > 0, overwrite)
            invoked == eligible /\ ~skip /\ reply # "unreadable"
        IN  /\ (eligible /\ ~skip) \/ reply = "written"
            /\ pic' = IF invoked /\ reply = "written"
                      THEN [a EXCEPT !.faces = NewV(a.faces),
                                     !.torn = @ \ {"faces.json"}]
                      ELSE a
            /\ StageStep("faces", overwrite, reply # "written", invoked, FALSE)
            /\ UNCHANGED ocr_md

\* filter_photos.process_directory, the body of the loop over the
\* subdirectories of images/; the tool has no overwrite option
EvaluatePhoto ==
    \E stats \in BOOLEAN :
        LET a == pic
            skip == SkipDone(a.eval > 0, FALSE)
            invoked == a.dir /\ ~skip
        IN  /\ invoked \/ stats
            /\ pic' = IF invoked /\ stats
                      THEN [a EXCEPT !.eval = NewV(a.eval)] ELSE a
            /\ StageStep("eval", FALSE, ~stats, invoked, FALSE)
            /\ UNCHANGED ocr_md

\* perform_ocr.process_directory; the tool has no overwrite option
ImageOcr ==
    \E dry_run \in BOOLEAN, transcription \in BOOLEAN :
        LET a == pic
            eligible == Parses(a) /\ a.analysis.needs_ocr
            skip == SkipDone(a.ocr > 0, FALSE)
            invoked == eligible /\ ~skip /\ ~dry_run
        IN  /\ invoked \/ transcription
            /\ (eligible /\ ~skip) \/ ~dry_run
            /\ pic' = IF invoked /\ transcription
                      THEN [a EXCEPT !.ocr = NewV(a.ocr)] ELSE a
            /\ StageStep("ocr", FALSE, dry_run \/ ~transcription, invoked, FALSE)
            /\ UNCHANGED ocr_md

\* perform_pdf_ocr.process_pdf
PdfOcr ==
    \E overwrite \in BOOLEAN, dry_run \in BOOLEAN, readable \in BOOLEAN :
        LET skip == SkipDone(ocr_md > 0, overwrite)
            invoked == ~skip /\ readable /\ ~dry_run
        IN  /\ (~skip) \/ (readable /\ ~dry_run)
            /\ readable \/ ~dry_run
            /\ ocr_md' = IF invoked THEN NewV(ocr_md) ELSE ocr_md
            /\ StageStep("pdf_ocr", overwrite, dry_run \/ ~readable, invoked, FALSE)
            /\ UNCHANGED pic

\* SIZES, in the order the loop saves them
DerivativeNames == <<"tiny", "thumb", "small", "medium">>
\* the derivatives saved when the n-th save raises (all: none raises)
SavedBefore(n) == {DerivativeNames[i] : i \in 1 .. (n - 1)}

\* process_images.create_derivatives: full.avif is saved first, then the
\* resized versions; an exception of a save is caught, the function
\* returns False and the files saved so far stay
Derive ==
    \E overwrite \in BOOLEAN, readable \in BOOLEAN,
       raises \in 1 .. (Len(DerivativeNames) + 1) :
        LET a == pic
            skip == SkipDone(a.avif > 0, overwrite)
            invoked == ~skip /\ readable
        IN  /\ (~skip) \/ readable
            /\ invoked \/ raises = Len(DerivativeNames) + 1
            /\ pic' = IF invoked
                      THEN [a EXCEPT !.dir = TRUE, !.avif = NewV(a.avif),
                                     !.sizes = @ \cup SavedBefore(raises),
                                     !.torn = @ \ {"full.avif"}]
                      ELSE a
            /\ StageStep("derive", overwrite,
                         ~readable \/ raises <= Len(DerivativeNames), invoked, FALSE)
            /\ UNCHANGED ocr_md

\* the files the stages write with open(path, "w") or img.save(path)
TornNames == {"analysis.json", "faces.json", "eval.json", "ocr.txt", "full.avif"}

\* a stage that has reached the write of its artifact (overwrite off) is
\* killed before the write is complete: the path exists, the content is cut
KilledWriting ==
    /\ stepsLeft > 0
    /\ pic.torn = {}
    /\ \E name \in TornNames :
         LET a == pic
         IN  /\ CASE name = "analysis.json" -> a.analysis.v = 0 /\ a.old_json.v = 0
                  [] name = "faces.json" ->
                       Parses(a) /\ a.analysis.has_faces /\ a.faces = 0
                  [] name = "eval.json" -> a.dir /\ a.eval = 0
                  [] name = "ocr.txt" ->
                       Parses(a) /\ a.analysis.needs_ocr /\ a.ocr = 0
                  [] OTHER -> a.avif = 0
             /\ pic' =
                  CASE name = "analysis.json" ->
                         [a EXCEPT !.dir = TRUE, !.torn = {name},
                                   !.analysis = [NoAnalysis EXCEPT !.v = NewV(0)]]
                    [] name = "faces.json" ->
                         [a EXCEPT !.faces = NewV(0), !.torn = {name}]
                    [] name = "eval.json" ->
                         [a EXCEPT !.eval = NewV(0), !.torn = {name}]
                    [] name = "ocr.txt" ->
                         [a EXCEPT !.ocr = NewV(0), !.torn = {name}]
                    [] OTHER ->
                         [a EXCEPT !.dir = TRUE, !.avif = NewV(0), !.torn = {name}]
    /\ UNCHANGED <<ocr_md, stepsLeft, lastStep>>
    /\ UNCHANGED <<pubVars, storeVars>>


(* ---------------------------- filesystem ------------------------------ *)
\* os.path.getmtime(p); 0 stands for a path that does not exist
Mtime(p) == IF p \in DOMAIN touched THEN touched[p] ELSE InitMtime(p)
Exists(p) == Mtime(p) > 0

\* get_max_mtime(paths): paths is a sequence
RECURSIVE MaxMtimeFrom(_, _, _)
MaxMtimeFrom(paths, i, max_mtime) ==
    IF i > Len(paths) THEN max_mtime
    ELSE IF Exists(paths[i]) /\ Mtime(paths[i]) > max_mtime
         THEN MaxMtimeFrom(paths, i + 1, Mtime(paths[i]))
         ELSE MaxMtimeFrom(paths, i + 1, max_mtime)
\* mutant: the comparison "mtime > max_mtime" is lost, the first existing
\* path decides
RECURSIVE FirstMtimeFrom(_, _)
FirstMtimeFrom(paths, i) ==
    IF i > Len(paths) THEN 0
    ELSE IF Exists(paths[i]) THEN Mtime(paths[i])
    ELSE FirstMtimeFrom(paths, i + 1)
get_first_mtime(paths) == FirstMtimeFrom(paths, 1)
get_max_mtime(paths) == MaxMtimeFrom(paths, 1, 0)

(* --------------------------- blob storage ----------------------------- *)
\* what one call of upload_file_to_storage meets: no error, an error raised
\* by blob.exists() or upload_from_filename (nothing written), or an error
\* raised by make_public (the blob is written already)
Outcomes == {"ok", "error", "error_public"}

BlobWrites(bl, dest) == IF dest \in DOMAIN bl THEN bl[dest].writes ELSE 0

\* mutant: the blob.exists() test is missing
upload_always(bl, local_path, destination_path, out) ==
    IF out = "error"
    THEN [blobs |-> bl, url |-> FALSE, wrote |-> 0]
    ELSE [blobs |-> Put(bl, destination_path,
                        [writes |-> BlobWrites(bl, destination_path) + 1,
                         version |-> Mtime(local_path)]),
          url |-> out # "error_public", wrote |-> 1]

\* upload_file_to_storage(local_path, destination_path): the bucket after
\* the call, whether a URL was returned (FALSE: it raised), and the number
\* of blobs written
upload_file_to_storage(bl, local_path, destination_path, out) ==
    IF out = "error"
    THEN [blobs |-> bl, url |-> FALSE, wrote |-> 0]
    ELSE IF destination_path \in DOMAIN bl
    THEN [blobs |-> bl, url |-> TRUE, wrote |-> 0]
    ELSE [blobs |-> Put(bl, destination_path,
                        [writes |-> BlobWrites(bl, destination_path) + 1,
                         version |-> Mtime(local_path)]),
          url |-> out = "ok", wrote |-> 1]

\* mutant: a failed or impossible upload still yields a URL
safe_upload_unchecked(bl, local_path, destination_path, out) ==
    [blobs |-> IF Exists(local_path)
               THEN upload_file_to_storage(bl, local_path, destination_path, out).blobs
               ELSE bl,
     url |-> TRUE,
     wrote |-> IF Exists(local_path)
               THEN upload_file_to_storage(bl, local_path, destination_path, out).wrote
               ELSE 0]

\* safe_upload: None (url = FALSE) if the file is missing or the upload raised
safe_upload(bl, local_path, destination_path, out) ==
    IF ~Exists(local_path)
    THEN [blobs |-> bl, url |-> FALSE, wrote |-> 0]
    ELSE upload_file_to_storage(bl, local_path, destination_path, out)

\* the safe_upload calls of one entity, in program order; ups is a sequence
\* of [local, dest], outs the outcome each call meets
RECURSIVE UploadSeq(_, _, _, _, _, _)
UploadSeq(bl, ups, outs, i, urls, wrote) ==
    IF i > Len(ups) THEN [blobs |-> bl, urls |-> urls, wrote |-> wrote]
    ELSE LET r == safe_upload(bl, ups[i].local, ups[i].dest, outs[i])
         IN  UploadSeq(r.blobs, ups, outs, i + 1, Append(urls, r.url),
                       wrote + r.wrote)

NFaults(outs) == Cardinality({i \in DOMAIN outs : outs[i] # "ok"})

\* the outcomes the calls of one entity can meet: make_public is reached
\* only for a blob that did not exist
UploadOutcomes(ups, mayFail) ==
    {outs \in [1 .. Len(ups) -> Outcomes] :
        /\ NFaults(outs) <= (IF mayFail THEN eventsLeft ELSE 0)
        /\ \A i \in 1 .. Len(ups) :
              outs[i] = "error_public" => ups[i].dest \notin DOMAIN blobs}

\* the entries of names (a sequence) whose file exists under dir, in order
RECURSIVE ExistingNames(_, _, _)
ExistingNames(dir, names, i) ==
    IF i > Len(names) THEN <<>>
    ELSE (IF Exists(Path(dir, names[i])) THEN <<names[i]>> ELSE <<>>)
         \o ExistingNames(dir, names, i + 1)

(* --------------------------- remote store ----------------------------- *)
BatchIds(b) == {b[i][1] : i \in 1 .. Len(b)}
LastData(b, id) == b[Max({i \in 1 .. Len(b) : b[i][1] = id})][2]
\* batch.commit() succeeding: every batch.set(ref, data, merge=True) applied
CommitBatch(coll, b) ==
    [id \in (DOMAIN coll) \cup BatchIds(b) |->
        IF id \in BatchIds(b) THEN LastData(b, id) ELSE coll[id]]

(* ------------------------- the publish process ------------------------ *)
Kinds == {COL_DOCUMENTS, COL_IMAGES, COL_FACES}

\* the SyncState key a record id is tracked under: the image, for a face
KeyOf(kind, id) == IF kind = COL_FACES THEN SubSeq(id, 1, 2) ELSE id

NoRun ==
    [start |-> EmptyState, skipped |-> {}, staged |-> {}, committed |-> {},
     uploadFailed |-> {}, uploads |-> 0, commits |-> 0, faults |-> FALSE,
     failed |-> {}, aborted |-> FALSE, done |-> {}]

NoLast ==
    [ran |-> FALSE, clean |-> FALSE, force |-> FALSE, kinds |-> {},
     failed |-> {}, changed |-> FALSE]

\* the kinds a run with these arguments ingests
RunKinds(o, v) ==
    {k \in Kinds : (o \in {"all", k}) /\ (k = COL_FACES => v)}

\* main(), lines 548-555: the ingest function that runs after phase k
\* ("save" when none is left); ingest_faces returns at once without Vector
PhaseAfter(k, o, v) ==
    LET order == <<COL_DOCUMENTS, COL_IMAGES, COL_FACES>>
        pos == CASE k = COL_DOCUMENTS -> 1
                 [] k = COL_IMAGES -> 2
                 [] k = COL_FACES -> 3
                 [] OTHER -> 0
        cand == {i \in (pos + 1) .. 3 : order[i] \in RunKinds(o, v)}
    IN  IF cand = {} THEN "save"
        ELSE order[CHOOSE i \in cand : \A j \in cand : i <= j]

\* load_state(): the file's content, or the empty state when the file is
\* absent or unparsable
load_state ==
    IF stateFile.status = "ok" THEN stateFile.data ELSE EmptyState

Init ==
    /\ touched = EmptyMap
    /\ now = InitClock
    /\ stateFile = [status |-> "absent", data |-> EmptyState]
    /\ blobs = EmptyMap
    /\ remote = [k \in Kinds |-> EmptyMap]
    /\ pc = "idle"
    /\ idx = 0
    /\ force = FALSE
    /\ only = "all"
    /\ vector = TRUE
    /\ state = EmptyState
    /\ batch = <<>>
    /\ pending_updates = EmptyMap
    /\ eventsLeft = MaxEvents
    /\ run = NoRun
    /\ last = NoLast
    /\ published = EmptyMap
    /\ StoreUnused
    /\ StageUnused

\* main() up to the first ingest function: a missing credentials file or a
\* missing inventory ends the run before the state is loaded
StartRun ==
    /\ pc = "idle"
    /\ \E cfg \in {"ok", "no_credentials", "no_inventory"},
          f \in BOOLEAN, o \in {"all"} \cup Kinds, v \in BOOLEAN :
          LET cost == (IF o = "all" THEN 0 ELSE 1) + (IF v THEN 0 ELSE 1)
          IN  IF cfg # "ok"
              THEN /\ f = FALSE /\ o = "all" /\ v = TRUE
                   /\ UNCHANGED <<pc, idx, force, only, vector, state, batch,
                                  pending_updates, run, eventsLeft>>
              ELSE /\ cost <= eventsLeft
                   /\ eventsLeft' = eventsLeft - cost
                   /\ force' = f
                   /\ only' = o
                   /\ vector' = v
                   /\ state' = load_state
                   /\ pc' = PhaseAfter("start", o, v)
                   /\ idx' = 1
                   /\ batch' = <<>>
                   /\ pending_updates' = EmptyMap
                   /\ run' = [NoRun EXCEPT !.start = load_state]
    /\ UNCHANGED <<touched, now, stateFile, blobs, remote, last, published>>
    /\ UNCHANGED <<storeVars, stageVars>>

\* an exception leaves the ingest function and main(): only the finally
\* clause (save_state) still runs
Raise(b, p, kind, r) ==
    /\ pc' = "save"
    /\ batch' = b
    /\ pending_updates' = p
    /\ run' = [r EXCEPT !.aborted = TRUE, !.faults = TRUE,
                        !.commits = @ + 1,
                        !.failed = {<<kind, KeyOf(kind, id)>> : id \in BatchIds(b)}]
    /\ UNCHANGED <<state, idx>>

\* mutant: the SyncState entry is written when the record is staged
StageEntityEager(kind, id, data, current_mtime, ok, r) ==
    LET b2 == Append(batch, <<id, data>>)
        r2 == [r EXCEPT !.staged = @ \cup {<<kind, id>>}]
        s2 == [state EXCEPT ![kind] = Put(@, id, current_mtime)]
    IN  IF Len(b2) >= BatchLimit
        THEN IF ok
             THEN /\ remote' = [remote EXCEPT ![kind] = CommitBatch(@, b2)]
                  /\ batch' = <<>>
                  /\ state' = s2
                  /\ pending_updates' = EmptyMap
                  /\ run' = [r2 EXCEPT !.commits = @ + 1,
                                !.committed = @ \cup {<<kind, i>> : i \in BatchIds(b2)}]
                  /\ idx' = idx + 1
                  /\ pc' = pc
             ELSE /\ pc' = "save"
                  /\ batch' = b2
                  /\ state' = s2
                  /\ run' = [r2 EXCEPT !.aborted = TRUE, !.faults = TRUE,
                                !.commits = @ + 1,
                                !.failed = {<<kind, i>> : i \in BatchIds(b2)}]
                  /\ UNCHANGED <<remote, idx, pending_updates>>
        ELSE /\ batch' = b2
             /\ state' = s2
             /\ run' = r2
             /\ idx' = idx + 1
             /\ UNCHANGED <<remote, pc, pending_updates>>

\* mutant: the fingerprints are read again when the batch is committed
StageEntityStampAtCommit(kind, id, data, current_mtime, ok, r) ==
    LET b2 == Append(batch, <<id, data>>)
        p2 == Put(pending_updates, id, current_mtime)
        r2 == [r EXCEPT !.staged = @ \cup {<<kind, id>>}]
        stamp(k) ==
            IF Len(k) = 1
            THEN get_max_mtime(<<Path(k, "pdf"), Path(k, "medium.avif"),
                                 Path(k, "thumb.avif"), Path(k, "info.json"),
                                 Path(k, "content.txt"), Path(k, "content.md"),
                                 Path(k, "ocr.txt"), Path(k, "ocr.md")>>)
            ELSE get_max_mtime(<<Path(k, "medium.avif"), Path(k, "thumb.avif"),
                                 Path(k, "analysis.json"), Path(k, "eval.json"),
                                 Path(k, "ocr.txt"), Path(k, "ocr.md")>>)
    IN  IF Len(b2) >= BatchLimit
        THEN IF ok
             THEN /\ remote' = [remote EXCEPT ![kind] = CommitBatch(@, b2)]
                  /\ batch' = <<>>
                  /\ state' = [state EXCEPT ![kind] =
                                  Update(@, [k \in DOMAIN p2 |-> stamp(k)])]
                  /\ pending_updates' = EmptyMap
                  /\ run' = [r2 EXCEPT !.commits = @ + 1,
                                !.committed = @ \cup {<<kind, i>> : i \in BatchIds(b2)}]
                  /\ idx' = idx + 1
                  /\ pc' = pc
             ELSE Raise(b2, p2, kind, r2) /\ UNCHANGED remote
        ELSE /\ batch' = b2
             /\ pending_updates' = p2
             /\ run' = r2
             /\ idx' = idx + 1
             /\ UNCHANGED <<state, remote, pc>>

\* lines 231-246 and 381-396: batch.set, pending_updates[id] = current_mtime
\* and, at BatchLimit records, the commit followed by the SyncState update
StageEntity(kind, id, data, current_mtime, ok, r) ==
    LET b2 == Append(batch, <<id, data>>)
        p2 == Put(pending_updates, id, current_mtime)
        r2 == [r EXCEPT !.staged = @ \cup {<<kind, id>>}]
    IN  IF Len(b2) >= BatchLimit
        THEN IF ok
             THEN /\ remote' = [remote EXCEPT ![kind] = CommitBatch(@, b2)]
                  /\ batch' = <<>>
                  /\ state' = [state EXCEPT ![kind] = Update(@, p2)]
                  /\ pending_updates' = EmptyMap
                  /\ run' = [r2 EXCEPT !.commits = @ + 1,
                                !.committed = @ \cup {<<kind, i>> : i \in BatchIds(b2)}]
                  /\ idx' = idx + 1
                  /\ pc' = pc
             ELSE Raise(b2, p2, kind, r2) /\ UNCHANGED remote
        ELSE /\ batch' = b2
             /\ pending_updates' = p2
             /\ run' = r2
             /\ idx' = idx + 1
             /\ UNCHANGED <<state, remote, pc>>

\* "continue": the loop goes on with the next entry
Continue(r) ==
    /\ idx' = idx + 1
    /\ run' = r
    /\ UNCHANGED <<state, remote, pc, batch, pending_updates>>

\* mutant: doc_state.update(pending_updates) precedes the last batch.commit()
FinishEntitiesUpdateFirst(kind, ok) ==
    IF Len(batch) > 0 /\ ~ok
    THEN /\ pc' = "save"
         /\ state' = [state EXCEPT ![kind] = Update(@, pending_updates)]
         /\ run' = [run EXCEPT !.aborted = TRUE, !.faults = TRUE,
                       !.commits = @ + 1,
                       !.failed = {<<kind, i>> : i \in BatchIds(batch)}]
         /\ UNCHANGED <<remote, idx, batch, pending_updates>>
    ELSE /\ ok
         /\ remote' = [remote EXCEPT ![kind] =
                          IF Len(batch) > 0 THEN CommitBatch(@, batch) ELSE @]
         /\ state' = [state EXCEPT ![kind] =
                          IF Len(batch) > 0 THEN Update(@, pending_updates) ELSE @]
         /\ run' = [run EXCEPT
                      !.commits = @ + (IF Len(batch) > 0 THEN 1 ELSE 0),
                      !.committed = @ \cup {<<kind, i>> : i \in BatchIds(batch)},
                      !.done = @ \cup {kind}]
         /\ pc' = PhaseAfter(kind, only, vector)
         /\ idx' = 1
         /\ batch' = <<>>
         /\ pending_updates' = EmptyMap

\* mutant: the last, partial batch is not committed
FinishEntitiesNoFlush(kind, ok) ==
    /\ ok
    /\ run' = [run EXCEPT !.done = @ \cup {kind}]
    /\ pc' = PhaseAfter(kind, only, vector)
    /\ idx' = 1
    /\ batch' = <<>>
    /\ pending_updates' = EmptyMap
    /\ UNCHANGED <<remote, state>>

\* lines 248-253 and 398-402: the commit of the last, partial batch
FinishEntities(kind, ok) ==
    IF Len(batch) > 0 /\ ~ok
    THEN Raise(batch, pending_updates, kind, run) /\ UNCHANGED remote
    ELSE /\ ok
         /\ remote' = [remote EXCEPT ![kind] =
                          IF Len(batch) > 0 THEN CommitBatch(@, batch) ELSE @]
         /\ state' = [state EXCEPT ![kind] =
                          IF Len(batch) > 0 THEN Update(@, pending_updates) ELSE @]
         /\ run' = [run EXCEPT
                      !.commits = @ + (IF Len(batch) > 0 THEN 1 ELSE 0),
                      !.committed = @ \cup {<<kind, i>> : i \in BatchIds(batch)},
                      !.done = @ \cup {kind}]
         /\ pc' = PhaseAfter(kind, only, vector)
         /\ idx' = 1
         /\ batch' = <<>>
         /\ pending_updates' = EmptyMap

\* mutant: "<" for "<="
IsFreshStrict(current_mtime, last_mtime) == ~force /\ current_mtime < last_mtime
\* mutant: the force flag is not consulted
IsFreshIgnoreForce(current_mtime, last_mtime) == current_mtime <= last_mtime

\* whether the freshness check skips the entity (lines 169, 322, 451)
IsFresh(current_mtime, last_mtime) == ~force /\ current_mtime <= last_mtime

\* a commit may fail only where an environment event is still allowed
CommitOutcomes(used) == {TRUE} \cup (IF eventsLeft - used > 0 THEN {FALSE} ELSE {})
Cost(ok) == IF ok THEN 0 ELSE 1

(* ------------------------- ingest_documents --------------------------- *)
DocCheckPaths(u) ==
    <<Path(DocId(u), "pdf"), Path(DocId(u), "medium.avif"),
      Path(DocId(u), "thumb.avif"), Path(DocId(u), "info.json")>>
    \o [i \in 1 .. Len(DocTextNames) |-> Path(DocId(u), DocTextNames[i])]

DocUploads(u) ==
    LET names == <<"medium.avif", "thumb.avif">>
                 \o ExistingNames(DocId(u), DocTextNames, 1)
    IN  [i \in 1 .. Len(names) |->
            [local |-> Path(DocId(u), names[i]),
             dest |-> <<COL_DOCUMENTS, DocId(u), names[i]>>,
             name |-> names[i]]]

\* doc_data: the previews' URLs are set, content/ocr hold the text files
\* whose upload returned a URL
DocData(u, ups, urls) ==
    [preview_medium |-> urls[1], preview_thumb |-> urls[2],
     texts |-> {ups[i].name : i \in {j \in 3 .. Len(ups) : urls[j]}},
     info |-> Mtime(Path(DocId(u), "info.json"))]

\* one iteration of the loop over inventory.items()
DocStep ==
    /\ pc = COL_DOCUMENTS
    /\ idx <= NPdf + 2
    /\ LET u == idx
           e == <<COL_DOCUMENTS, DocId(u)>>
           current_mtime == get_max_mtime(DocCheckPaths(u))
           last_mtime == Get(state[COL_DOCUMENTS], DocId(u))
           ups == DocUploads(u)
       IN  IF LocalPathKind(u) # "pdf" \/ ~Exists(Path(DocId(u), "medium.avif"))
           THEN Continue(run) /\ UNCHANGED <<blobs, eventsLeft>>
           ELSE IF IsFresh(current_mtime, last_mtime)
           THEN Continue([run EXCEPT !.skipped = @ \cup {e}])
                /\ UNCHANGED <<blobs, eventsLeft>>
           ELSE IF ~Exists(Path(DocId(u), "thumb.avif"))
           THEN Continue(run) /\ UNCHANGED <<blobs, eventsLeft>>
           ELSE \E outs \in UploadOutcomes(ups, Volatile(DocId(u))) :
                  LET up == UploadSeq(blobs, ups, outs, 1, <<>>, 0)
                      r2 == [run EXCEPT !.uploads = @ + up.wrote,
                                !.faults = @ \/ NFaults(outs) > 0,
                                !.uploadFailed = @ \cup
                                    (IF NFaults(outs) > 0 THEN {e} ELSE {})]
                  IN  /\ blobs' = up.blobs
                      /\ IF ~up.urls[1] \/ ~up.urls[2]
                         THEN /\ Continue(r2)
                              /\ eventsLeft' = eventsLeft - NFaults(outs)
                         ELSE \E ok \in CommitOutcomes(NFaults(outs)) :
                                /\ ok \/ Len(batch) + 1 >= BatchLimit
                                /\ eventsLeft' = eventsLeft - NFaults(outs) - Cost(ok)
                                /\ StageEntity(COL_DOCUMENTS, DocId(u),
                                       DocData(u, ups, up.urls),
                                       current_mtime, ok, r2)
    /\ UNCHANGED <<touched, now, stateFile, force, only, vector, last,
                   published>>
    /\ UNCHANGED <<storeVars, stageVars>>

DocFinish ==
    /\ pc = COL_DOCUMENTS
    /\ idx > NPdf + 2
    /\ \E ok \in CommitOutcomes(0) :
          /\ FinishEntities(COL_DOCUMENTS, ok)
          /\ eventsLeft' = eventsLeft - Cost(ok)
    /\ UNCHANGED <<touched, now, stateFile, blobs, force, only, vector, last,
                   published>>
    /\ UNCHANGED <<storeVars, stageVars>>

(* -------------------------- ingest_images ----------------------------- *)
\* the (item, listdir entry) pairs the two nested loops go through: items
\* without a PDF local_path or without an images directory contribute none
RECURSIVE SortedEntries(_, _)
SortedEntries(u, names) ==
    IF names = {} THEN <<>>
    ELSE LET n == CHOOSE x \in names : \A y \in names : x <= y
         IN  <<<<u, n>>>> \o SortedEntries(u, names \ {n})
RECURSIVE ImageEntriesFrom(_)
ImageEntriesFrom(u) ==
    IF u > NPdf + 2 THEN <<>>
    ELSE (IF LocalPathKind(u) = "pdf" /\ ImagesRootExists(u)
          THEN SortedEntries(u, ImgNames(u))
          ELSE <<>>)
         \o ImageEntriesFrom(u + 1)
ImageEntries == ImageEntriesFrom(1)

ImgCheckPaths(u, n) ==
    <<Path(ImgDbId(u, n), "medium.avif"), Path(ImgDbId(u, n), "thumb.avif"),
      Path(ImgDbId(u, n), "analysis.json"), Path(ImgDbId(u, n), "eval.json")>>
    \o [i \in 1 .. Len(ImgTextNames) |-> Path(ImgDbId(u, n), ImgTextNames[i])]

ImgUploads(u, n) ==
    LET names == <<"medium.avif", "thumb.avif">>
                 \o ExistingNames(ImgDbId(u, n), ImgTextNames, 1)
    IN  [i \in 1 .. Len(names) |->
            [local |-> Path(ImgDbId(u, n), names[i]),
             dest |-> <<COL_IMAGES, ImgDbId(u, n), names[i]>>,
             name |-> names[i]]]

ImgData(u, n, ups, urls) ==
    [parent_doc_id |-> DocId(u), image_name |-> n,
     preview_medium |-> urls[1], preview_thumb |-> urls[2],
     texts |-> {ups[i].name : i \in {j \in 3 .. Len(ups) : urls[j]}},
     analysis |-> Mtime(Path(ImgDbId(u, n), "analysis.json"))]

\* one iteration of the inner loop over os.listdir(images_root)
ImgStep ==
    /\ pc = COL_IMAGES
    /\ idx <= Len(ImageEntries)
    /\ LET u == ImageEntries[idx][1]
           n == ImageEntries[idx][2]
           dir == ImgDbId(u, n)
           e == <<COL_IMAGES, dir>>
           current_mtime == get_max_mtime(ImgCheckPaths(u, n))
           last_mtime == Get(state[COL_IMAGES], dir)
           ups == ImgUploads(u, n)
       IN  IF \/ ~IsDir(u, n)
              \/ ~Exists(Path(dir, "eval.json"))
              \/ ~EvalReadable(u, n)
              \/ ~Exists(Path(dir, "medium.avif"))
           THEN Continue(run) /\ UNCHANGED <<blobs, eventsLeft>>
           ELSE IF IsFresh(current_mtime, last_mtime)
           THEN Continue([run EXCEPT !.skipped = @ \cup {e}])
                /\ UNCHANGED <<blobs, eventsLeft>>
           ELSE IF ~Exists(Path(dir, "thumb.avif"))
           THEN Continue(run) /\ UNCHANGED <<blobs, eventsLeft>>
           ELSE \E outs \in UploadOutcomes(ups, Volatile(dir)) :
                  LET up == UploadSeq(blobs, ups, outs, 1, <<>>, 0)
                      r2 == [run EXCEPT !.uploads = @ + up.wrote,
                                !.faults = @ \/ NFaults(outs) > 0,
                                !.uploadFailed = @ \cup
                                    (IF NFaults(outs) > 0 THEN {e} ELSE {})]
                  IN  /\ blobs' = up.blobs
                      /\ IF ~up.urls[1] \/ ~up.urls[2]
                         THEN /\ Continue(r2)
                              /\ eventsLeft' = eventsLeft - NFaults(outs)
                         ELSE \E ok \in CommitOutcomes(NFaults(outs)) :
                                /\ ok \/ Len(batch) + 1 >= BatchLimit
                                /\ eventsLeft' = eventsLeft - NFaults(outs) - Cost(ok)
                                /\ StageEntity(COL_IMAGES, dir,
                                       ImgData(u, n, ups, up.urls),
                                       current_mtime, ok, r2)
    /\ UNCHANGED <<touched, now, stateFile, force, only, vector, last,
                   published>>
    /\ UNCHANGED <<storeVars, stageVars>>

ImgFinish ==
    /\ pc = COL_IMAGES
    /\ idx > Len(ImageEntries)
    /\ \E ok \in CommitOutcomes(0) :
          /\ FinishEntities(COL_IMAGES, ok)
          /\ eventsLeft' = eventsLeft - Cost(ok)
    /\ UNCHANGED <<touched, now, stateFile, blobs, force, only, vector, last,
                   published>>
    /\ UNCHANGED <<storeVars, stageVars>>

(* --------------------------- ingest_faces ----------------------------- *)
FaceData(u, n) ==
    [parent_image_id |-> ImgDbId(u, n), parent_doc_id |-> DocId(u),
     image_name |-> n, embedding |-> "Vector"]

\* lines 471-508: the loop over enumerate(faces_data). failAt is the number
\* of the batch.commit() call of this image that raises (0: none does)
RECURSIVE FaceLoop(_, _, _, _, _, _, _, _)
FaceLoop(u, n, faces, i, b, coll, failAt, done) ==
    IF i > Len(faces)
    THEN [batch |-> b, coll |-> coll, raised |-> FALSE, commits |-> done.commits,
          staged |-> done.staged, committed |-> done.committed]
    ELSE IF ~faces[i]
    THEN FaceLoop(u, n, faces, i + 1, b, coll, failAt, done)
    ELSE LET id == FaceId(u, n, i - 1)
             b2 == Append(b, <<id, FaceData(u, n)>>)
             d2 == [done EXCEPT !.staged = @ \cup {<<COL_FACES, id>>}]
         IN  IF Len(b2) >= BatchLimit
             THEN IF d2.commits + 1 = failAt
                  THEN [batch |-> b2, coll |-> coll, raised |-> TRUE,
                        commits |-> d2.commits, staged |-> d2.staged,
                        committed |-> d2.committed]
                  ELSE FaceLoop(u, n, faces, i + 1, <<>>, CommitBatch(coll, b2),
                                failAt,
                                [d2 EXCEPT !.commits = @ + 1,
                                     !.committed = @ \cup
                                        {<<COL_FACES, x>> : x \in BatchIds(b2)}])
             ELSE FaceLoop(u, n, faces, i + 1, b2, coll, failAt, d2)

NEmbedded(faces) == Cardinality({i \in 1 .. Len(faces) : faces[i]})

\* one iteration of the inner loop over os.listdir(images_root). The second
\* "if batch_count >= 10" (line 513) never holds: the loop above it commits
\* as soon as the count reaches BatchLimit
FaceStep ==
    /\ pc = COL_FACES
    /\ idx <= Len(ImageEntries)
    /\ LET u == ImageEntries[idx][1]
           n == ImageEntries[idx][2]
           sync_key == ImgDbId(u, n)
           faces_path == Path(sync_key, "faces.json")
           e == <<COL_FACES, sync_key>>
           current_mtime == Mtime(faces_path)
           last_mtime == Get(state[COL_FACES], sync_key)
           faces_data == FacesData(u, n)
           ncommits == (Len(batch) + NEmbedded(faces_data)) \div BatchLimit
       IN  IF ~IsDir(u, n) \/ ~Exists(faces_path)
           THEN Continue(run) /\ UNCHANGED eventsLeft
           ELSE IF IsFresh(current_mtime, last_mtime)
           THEN Continue([run EXCEPT !.skipped = @ \cup {e}])
                /\ UNCHANGED eventsLeft
           ELSE IF ~FacesReadable(u, n) \/ Len(faces_data) = 0
           THEN Continue(run) /\ UNCHANGED eventsLeft
           ELSE \E failAt \in 0 .. (IF eventsLeft > 0 THEN ncommits ELSE 0) :
                  LET fl == FaceLoop(u, n, faces_data, 1, batch,
                                     remote[COL_FACES], failAt,
                                     [commits |-> 0, staged |-> {}, committed |-> {}])
                      r2 == [run EXCEPT !.staged = @ \cup fl.staged,
                                !.committed = @ \cup fl.committed,
                                !.commits = @ + fl.commits]
                  IN  /\ remote' = [remote EXCEPT ![COL_FACES] = fl.coll]
                      /\ IF fl.raised
                         THEN /\ Raise(fl.batch, pending_updates, COL_FACES, r2)
                              /\ eventsLeft' = eventsLeft - 1
                         ELSE /\ batch' = fl.batch
                              /\ pending_updates' =
                                    Put(pending_updates, sync_key, current_mtime)
                              /\ run' = r2
                              /\ idx' = idx + 1
                              /\ UNCHANGED <<state, pc, eventsLeft>>
    /\ UNCHANGED <<touched, now, stateFile, blobs, force, only, vector, last,
                   published>>
    /\ UNCHANGED <<storeVars, stageVars>>

\* lines 518-522: the last commit, then face_state.update(pending_updates)
FaceFinish ==
    /\ pc = COL_FACES
    /\ idx > Len(ImageEntries)
    /\ \E ok \in CommitOutcomes(0) :
          /\ eventsLeft' = eventsLeft - Cost(ok)
          /\ IF Len(batch) > 0 /\ ~ok
             THEN Raise(batch, pending_updates, COL_FACES, run) /\ UNCHANGED remote
             ELSE /\ ok
                  /\ remote' = [remote EXCEPT ![COL_FACES] =
                                  IF Len(batch) > 0 THEN CommitBatch(@, batch) ELSE @]
                  /\ state' = [state EXCEPT ![COL_FACES] = Update(@, pending_updates)]
                  /\ run' = [run EXCEPT
                               !.commits = @ + (IF Len(batch) > 0 THEN 1 ELSE 0),
                               !.committed = @ \cup
                                   {<<COL_FACES, i>> : i \in BatchIds(batch)},
                               !.done = @ \cup {COL_FACES}]
                  /\ pc' = "save"
                  /\ idx' = 1
                  /\ batch' = <<>>
                  /\ pending_updates' = EmptyMap
    /\ UNCHANGED <<touched, now, stateFile, blobs, force, only, vector, last,
                   published>>
    /\ UNCHANGED <<storeVars, stageVars>>

(* --------------------------- observation ------------------------------ *)
\* the declared dependent paths of an entity: the check_paths lists of
\* ingest_documents and ingest_images, faces.json for the faces of an image
DepPaths(kind, key) ==
    CASE kind = COL_DOCUMENTS -> {Path(key, name) : name \in DocFileNames}
      [] kind = COL_IMAGES ->
            {Path(key, name) : name \in ImgFileNames \ {"faces.json"}}
      [] OTHER -> {Path(key, "faces.json")}

\* the fingerprint as the design states it: the maximum modification time
\* over the dependent paths that exist, 0 if none exists
Fingerprint(kind, key) ==
    LET times == {Mtime(p) : p \in {q \in DepPaths(kind, key) : Exists(q)}}
    IN  IF times = {} THEN 0 ELSE Max(times)

\* the entities with a record staged in run r
StagedKeys(r) == {<<x[1], KeyOf(x[1], x[2])>> : x \in r.staged}

\* the entities all of whose records staged in run r were committed
FullyCommitted(r) ==
    {e \in StagedKeys(r) :
        \A x \in r.staged : <<x[1], KeyOf(x[1], x[2])>> = e => x \in r.committed}

(* ------------------------------ main ---------------------------------- *)
\* save_state(state) in the finally clause: the dump succeeds, or open()
\* fails and the file stays as it was, or the write fails after open()
\* truncated the file; both errors are caught and only printed
SaveOutcomes == {"ok", "error_open", "error_write"}

save_state(out) ==
    CASE out = "ok" -> [status |-> "ok", data |-> state]
      [] out = "error_open" -> stateFile
      [] OTHER -> [status |-> "corrupt", data |-> EmptyState]

Save ==
    /\ pc = "save"
    /\ \E out \in SaveOutcomes :
          /\ out = "ok" \/ eventsLeft > 0
          /\ stateFile' = save_state(out)
          /\ eventsLeft' = eventsLeft - Cost(out = "ok")
          /\ last' = [ran |-> TRUE,
                      clean |-> ~run.faults /\ out = "ok",
                      force |-> force,
                      kinds |-> RunKinds(only, vector),
                      failed |-> run.failed,
                      changed |-> FALSE]
          /\ published' =
                IF out = "ok"
                THEN Update(published,
                            [e \in FullyCommitted(run) |-> Fingerprint(e[1], e[2])])
                ELSE published
    /\ pc' = "idle"
    /\ UNCHANGED <<touched, now, blobs, remote, idx, force, only, vector,
                   state, batch, pending_updates, run>>
    /\ UNCHANGED <<storeVars, stageVars>>

(* --------------------------- environment ------------------------------ *)
TouchPaths == {p \in AllPaths : Volatile(p[1])}

\* another stage writes (or rewrites) one artifact between two publish
\* runs; a write before the first run is not an event, it is another corpus
Touch ==
    /\ pc = "idle"
    /\ last.ran /\ ~last.changed
    /\ eventsLeft > 0
    /\ \E p \in TouchPaths : touched' = Put(touched, p, now + 1)
    /\ now' = now + 1
    /\ eventsLeft' = eventsLeft - 1
    /\ last' = [last EXCEPT !.changed = TRUE]
    /\ UNCHANGED <<stateFile, blobs, remote, pc, idx, force, only, vector,
                   state, batch, pending_updates, run, published>>
    /\ UNCHANGED <<storeVars, stageVars>>

Next ==
    \/ StartRun
    \/ DocStep
    \/ DocFinish
    \/ ImgStep
    \/ ImgFinish
    \/ FaceStep
    \/ FaceFinish
    \/ Save
    \/ Touch

Spec == Init /\ [][Next]_vars

\* another stage writes (or rewrites) one artifact while a publish run is
\* under way: after the run computed fingerprints, before it commits them
TouchDuring ==
    /\ pc # "idle"
    /\ eventsLeft > 0
    /\ \E p \in TouchPaths : touched' = Put(touched, p, now + 1)
    /\ now' = now + 1
    /\ eventsLeft' = eventsLeft - 1
    /\ UNCHANGED <<stateFile, blobs, remote, pc, idx, force, only, vector,
                   state, batch, pending_updates, run, last, published>>
    /\ UNCHANGED <<storeVars, stageVars>>

MidRunNext ==
    \/ Next
    \/ TouchDuring

MidRunSpec == Init /\ [][MidRunNext]_vars

\* analyze_images.process_directory, lines 122-126, between two publish
\* runs: the legacy sidecar <image>.json is renamed to
\* <image_stem>/analysis.json; os.rename keeps the modification time the
\* sidecar had, some time up to now
MigrateSidecar ==
    /\ pc = "idle"
    /\ last.ran /\ ~last.changed
    /\ eventsLeft > 0
    /\ \E d \in {x \in ImgDirs : Volatile(x)}, m \in 1 .. now :
          /\ ~Exists(Path(d, "analysis.json"))
          /\ touched' = Put(touched, Path(d, "analysis.json"), m)
    /\ eventsLeft' = eventsLeft - 1
    /\ last' = [last EXCEPT !.changed = TRUE]
    /\ UNCHANGED <<now, stateFile, blobs, remote, pc, idx, force, only, vector,
                   state, batch, pending_updates, run, published>>
    /\ UNCHANGED <<storeVars, stageVars>>

MigrateSpec == Init /\ [][Next \/ MigrateSidecar]_vars

(* ------------------- the pipeline tools on their own ------------------ *)
\* the publisher does not run
PublisherUnused ==
    /\ touched = EmptyMap
    /\ now = InitClock
    /\ stateFile = [status |-> "absent", data |-> EmptyState]
    /\ blobs = EmptyMap
    /\ remote = [k \in Kinds |-> EmptyMap]
    /\ pc = "idle"
    /\ idx = 0
    /\ force = FALSE
    /\ only = "all"
    /\ vector = TRUE
    /\ state = EmptyState
    /\ batch = <<>>
    /\ pending_updates = EmptyMap
    /\ eventsLeft = 0
    /\ run = NoRun
    /\ last = NoLast
    /\ published = EmptyMap

\* the tools run one at a time
StoreInit == StoreStart /\ PublisherUnused /\ StageUnused

StoreNext ==
    \E p \in {1} :
        \/ ScraperStart(p)
        \/ ScrapeFile(p)
        \/ DownloadStep(p)
        \/ ClassifyStart(p)
        \/ ClassifyStep(p)
        \/ ExtractStart(p)
        \/ ExtractStep(p)
        \/ AnalyzeStart(p)
        \/ AnalyzeStep(p)
        \/ TranscribeStart(p)
        \/ TranscribeStep(p)
        \/ Repair(p)
        \/ PublishLoad(p)
        \/ AnalyzePdfsLoad(p)
        \/ WriteOpen(p)
        \/ WriteDump(p)
        \/ Crash(p)
        \/ Finish(p)

StoreSpec == StoreInit /\ [][StoreNext]_vars

\* a downloaded corpus, no backup file yet
RepairStart ==
    /\ invFile = OkFile(AllDownloaded)
    /\ disk = [u \in Urls |->
                 [NoDisk EXCEPT !.files = 1,
                                !.pdf = IF UrlExt(u) = "pdf" THEN "text" ELSE "none"]]
    /\ obs = InitObs(OkFile(AllDownloaded))
    /\ procs = [p \in Procs |-> IdleProc]
    /\ runsLeft = MaxRepairRuns
    /\ crashesLeft = MaxCrashes
    /\ bakFile = AbsentFile

RepairInit == RepairStart /\ PublisherUnused /\ StageUnused

\* repair_inventory between runs of tools that write the inventory
RepairNext ==
    \E p \in {1} :
        \/ ScraperStart(p)
        \/ ScrapeFile(p)
        \/ DownloadStep(p)
        \/ ClassifyStart(p)
        \/ ClassifyStep(p)
        \/ Repair(p)
        \/ WriteOpen(p)
        \/ WriteDump(p)
        \/ Crash(p)
        \/ Finish(p)

RepairSpec == RepairInit /\ [][RepairNext]_vars

RaceInit == RaceStart /\ PublisherUnused /\ StageUnused

\* classify_files and extract_content side by side
LostUpdateNext ==
    \E p \in Procs :
        \/ ClassifyStart(p)
        \/ ClassifyStep(p)
        \/ ExtractStart(p)
        \/ ExtractStep(p)
        \/ WriteOpen(p)
        \/ WriteDump(p)
        \/ Finish(p)

LostUpdateSpec == RaceInit /\ [][LostUpdateNext]_vars

\* extract_content and analyze_images side by side
StaleRecordNext ==
    \E p \in Procs :
        \/ ExtractStart(p)
        \/ ExtractStep(p)
        \/ AnalyzeStart(p)
        \/ AnalyzeStep(p)
        \/ WriteOpen(p)
        \/ WriteDump(p)
        \/ Finish(p)

StaleRecordSpec == RaceInit /\ [][StaleRecordNext]_vars

\* the document stages, one run after the other, over a corpus of PDFs
PipelineInit == PipelineStart /\ PublisherUnused /\ StageUnused

PipelineNext ==
    \E p \in {1} :
        \/ ClassifyStart(p)
        \/ ClassifyStep(p)
        \/ ExtractStart(p)
        \/ ExtractStep(p)
        \/ AnalyzeStart(p)
        \/ AnalyzeStep(p)
        \/ WriteOpen(p)
        \/ WriteDump(p)
        \/ Finish(p)

PipelineSpec == PipelineInit /\ [][PipelineNext]_vars


StageInit == StageStart /\ PublisherUnused /\ StoreUnused

StageNext ==
    \/ AnalyzeImage
    \/ DetectFaces
    \/ EvaluatePhoto
    \/ ImageOcr
    \/ Derive
    \/ PdfOcr

StageSpec == StageInit /\ [][StageNext]_vars

\* the stages with a kill during a write
InterruptNext == StageNext \/ KilledWriting

InterruptSpec == StageInit /\ [][InterruptNext]_vars

\* a record of the inventory as the scraper leaves it: found, failed after
\* the file was created, or downloaded
ItemStates == {"pending", "failed", "downloaded"}
ItemRecord(st) ==
    IF st = "pending" THEN [status |-> "pending"]
    ELSE [status |-> st, local_path |-> 1]

\* a corpus of PDF items in any state of download, none classified
DependencyStart ==
    /\ \E sts \in [PdfUrls -> ItemStates], kind \in PdfKinds :
         /\ invFile = OkFile([u \in PdfUrls |-> ItemRecord(sts[u])])
         /\ disk = [u \in PdfUrls |->
                      [NoDisk EXCEPT !.files = IF sts[u] = "pending" THEN 0 ELSE 1,
                                     !.pdf = kind]]
         /\ obs = InitObs(OkFile([u \in PdfUrls |-> ItemRecord(sts[u])]))
    /\ procs = [p \in Procs |-> IdleProc]
    /\ runsLeft = MaxPipelineRuns
    /\ crashesLeft = 0
    /\ bakFile = AbsentFile

\* the passes over one corpus: the document stages over the inventory, or
\* the image stages over the files of one image, or the publisher
DependencyInit ==
    \/ DependencyStart /\ PublisherUnused /\ StageUnused
    \/ StageStart /\ PublisherUnused /\ StoreUnused
    \/ Init

DependencyNext ==
    \/ PipelineNext
    \/ StageNext
    \/ (StoreUnused /\ stepsLeft = 0 /\ pic = NoPic /\ Next)

DependencySpec == DependencyInit /\ [][DependencyNext]_vars

\* a corpus of PDF items in any state of download, none classified, before
\* a crawl that may find the other urls
ScraperRaceStart ==
    /\ \E sts \in [PdfUrls -> ItemStates], kind \in PdfKinds :
         /\ invFile = OkFile([u \in PdfUrls |-> ItemRecord(sts[u])])
         /\ disk = [u \in Urls \cup PdfUrls |->
                      [NoDisk EXCEPT !.files = IF u \in PdfUrls /\ sts[u] # "pending"
                                               THEN 1 ELSE 0,
                                     !.pdf = IF UrlExt(u) = "pdf" THEN kind
                                             ELSE "none"]]
         /\ obs = InitObs(OkFile([u \in PdfUrls |-> ItemRecord(sts[u])]))
    /\ procs = [p \in Procs |-> IdleProc]
    /\ runsLeft = MaxRuns
    /\ crashesLeft = 0
    /\ bakFile = AbsentFile

ScraperRaceInit == ScraperRaceStart /\ PublisherUnused /\ StageUnused

\* one scrape_epstein run and, while it runs, classify_files passes
ScraperRaceNext ==
    \/ ScraperStart(1)
    \/ ClassifyStart(2)
    \/ \E p \in Procs :
          \/ ScrapeFile(p)
          \/ DownloadStep(p)
          \/ ClassifyStep(p)
          \/ WriteOpen(p)
          \/ WriteDump(p)
          \/ Finish(p)

ScraperRaceSpec == ScraperRaceInit /\ [][ScraperRaceNext]_vars

\* the stage tools side by side over a downloaded corpus; a write may be
\* interrupted, and repair_inventory may run on what it left
CorruptStoreStart ==
    /\ invFile = OkFile(AllDownloaded)
    /\ \E kind \in PdfKinds :
         disk = [u \in Urls |->
                   [NoDisk EXCEPT !.files = 1,
                                  !.pdf = IF UrlExt(u) = "pdf" THEN kind
                                          ELSE "none"]]
    /\ obs = InitObs(OkFile(AllDownloaded))
    /\ procs = [p \in Procs |-> IdleProc]
    /\ runsLeft = MaxStageRuns
    /\ crashesLeft = MaxCrashes
    /\ bakFile = AbsentFile

CorruptStoreInit == CorruptStoreStart /\ PublisherUnused /\ StageUnused

CorruptStoreNext ==
    \E p \in Procs :
        \/ ClassifyStart(p)
        \/ ClassifyStep(p)
        \/ ExtractStart(p)
        \/ ExtractStep(p)
        \/ AnalyzeStart(p)
        \/ AnalyzeStep(p)
        \/ Repair(p)
        \/ WriteOpen(p)
        \/ WriteDump(p)
        \/ Crash(p)
        \/ Finish(p)

CorruptStoreSpec == CorruptStoreInit /\ [][CorruptStoreNext]_vars

(* ------------------------- observation helpers ------------------------ *)
AllEntities ==
    {<<COL_DOCUMENTS, DocId(u)>> : u \in 1 .. NPdf}
    \cup {<<COL_IMAGES, d>> : d \in ImgDirs}
    \cup {<<COL_FACES, d>> : d \in ImgDirs}

\* the loop position at which an entity is reached
Pos(e) ==
    IF e[1] = COL_DOCUMENTS THEN e[2][1]
    ELSE CHOOSE i \in 1 .. Len(ImageEntries) : ImageEntries[i] = e[2]

\* the ingest function a raised commit error left
AbortKind == (CHOOSE e \in run.failed : TRUE)[1]

\* the loop of this run went through the entity
Visited(e) ==
    \/ e[1] \in run.done
    \/ pc = e[1] /\ idx > Pos(e)
    \/ pc = "save" /\ run.aborted /\ AbortKind = e[1] /\ idx >= Pos(e)

\* the entity is not dropped by the existence checks that precede the
\* freshness check
PassedChecks(e) ==
    CASE e[1] = COL_DOCUMENTS -> Exists(Path(e[2], "medium.avif"))
      [] e[1] = COL_IMAGES ->
            /\ Exists(Path(e[2], "eval.json"))
            /\ EvalReadable(e[2][1], e[2][2])
            /\ Exists(Path(e[2], "medium.avif"))
      [] OTHER -> Exists(Path(e[2], "faces.json"))

Stored(st, e) == Get(st[e[1]], e[2])

(* ------------------------------ claims -------------------------------- *)

C2_AdvanceOnlyAfterCommit ==
    /\ \A x \in run.staged \ run.committed :
          Get(state[x[1]], KeyOf(x[1], x[2])) = Get(run.start[x[1]], KeyOf(x[1], x[2]))
    /\ \A k \in {COL_DOCUMENTS, COL_IMAGES} : \A key \in DOMAIN state[k] :
          state[k][key] # Get(run.start[k], key) => <<k, key>> \in run.committed

C2_Witness ==
    /\ pc = COL_DOCUMENTS
    /\ Len(batch) > 0
    /\ \E key \in DOMAIN state[COL_DOCUMENTS] :
          state[COL_DOCUMENTS][key] # Get(run.start[COL_DOCUMENTS], key)

\* C3 as stated: once a batch commit has succeeded, SyncState holds, for
\* every entity with a record in that batch, the fingerprint computed for it
\* in this pass.
C3_Original ==
    pc # "idle" =>
        \A x \in run.committed :
            Get(state[x[1]], KeyOf(x[1], x[2])) = Fingerprint(x[1], KeyOf(x[1], x[2]))

\* C4: a run without --force that follows a run in which every upload and
\* commit succeeded and the state file was saved, with no artifact modified
\* in between, uploads no blob, commits no batch and leaves SyncState as
\* loaded.
C4_PublishIdempotent ==
    (/\ pc # "idle"
     /\ last.ran /\ last.clean /\ ~last.changed
     /\ ~force
     /\ RunKinds(only, vector) \subseteq last.kinds) =>
        /\ run.uploads = 0
        /\ run.commits = 0
        /\ state = run.start

C4_Witness ==
    /\ pc = "save"
    /\ last.ran /\ last.clean /\ ~last.changed
    /\ ~force
    /\ only = "all" /\ vector
    /\ Cardinality(run.skipped) > BatchLimit

\* C5: for the PDF whose images directory holds the single directory
\* page1_img1 with eval.json, medium.avif and thumb.avif: after a pass over
\* the images in which every upload and commit succeeded, the images
\* collection holds exactly one record of that document, its id is
\* <doc_id>_page1_img1, its parent_doc_id is <doc_id>, and SyncState.images
\* of that id is the maximum modification time of the image's existing
\* dependent files.
C5_Scenario ==
    (pc # "idle" /\ COL_IMAGES \in run.done /\ ~run.faults) =>
        LET coll == remote[COL_IMAGES]
            mine == {id \in DOMAIN coll : coll[id].parent_doc_id = <<1>>}
            deps == {p \in DepPaths(COL_IMAGES, <<1, 1>>) : Exists(p)}
        IN  /\ mine = {<<1, 1>>}
            /\ coll[<<1, 1>>].image_name = 1
            /\ <<1, 1>> \in DOMAIN state[COL_IMAGES]
            /\ state[COL_IMAGES][<<1, 1>>] = Max({Mtime(p) : p \in deps})

C5_Witness ==
    /\ pc = COL_FACES
    /\ ~run.faults
    /\ run.start = EmptyState
    /\ <<COL_IMAGES, <<1, 1>>>> \in run.committed

\* C6 as stated: an entity whose dependent artifacts did not change since
\* its last successful publish is not stale in the next pass, and one with
\* a dependent artifact modified after that publish is stale.
C6_Original ==
    (pc # "idle" /\ ~force) =>
        /\ \A e \in StagedKeys(run) :
              e \in DOMAIN published => Fingerprint(e[1], e[2]) > published[e]
        /\ \A e \in run.skipped :
              e \in DOMAIN published => Fingerprint(e[1], e[2]) <= published[e]

\* C7: when a run reaches its end, every entity its loops went through that
\* passed its existence checks was skipped if and only if the force flag is
\* off and its fingerprint (maximum modification time of its existing
\* dependent paths, 0 if none) is at most its stored SyncState value (0 if
\* absent).
C7_StalenessDecision ==
    pc = "save" =>
        \A e \in AllEntities :
            (Visited(e) /\ PassedChecks(e)) =>
                (e \in run.skipped <=>
                    (~force /\ Fingerprint(e[1], e[2]) <= Stored(run.start, e)))

C7_Witness ==
    /\ pc = "save"
    /\ force
    /\ ~run.aborted
    /\ last.ran /\ last.clean
    /\ run.skipped = {}
    /\ Cardinality(StagedKeys(run)) > 2 * BatchLimit

\* C8 as stated: an entity with a failed blob upload (preview or text file)
\* is not staged and its SyncState entry does not advance.
C8_Original ==
    \A e \in run.uploadFailed :
        /\ e \notin StagedKeys(run)
        /\ Stored(state, e) = Stored(run.start, e)

\* C9: no blob key is written more than once: an upload to a key whose blob
\* exists transfers nothing.
C9_BlobWrittenOnce ==
    \A k \in DOMAIN blobs : blobs[k].writes <= 1

C9_Witness ==
    /\ pc = "save"
    /\ last.ran
    /\ run.uploads = 0
    /\ Cardinality(run.staged) > BatchLimit
    /\ \A k \in DOMAIN blobs : blobs[k].writes = 1

\* C10 as stated: a failed batch commit does not end the run: every ingest
\* function the arguments select has run to its end when main() saves the
\* state.
C10_Original ==
    pc = "save" => run.done = RunKinds(only, vector)

(* --------------------- the inventory: observation --------------------- *)
\* the step in which the tool at p finishes json.dump
Dumps(p) ==
    /\ procs[p].pc = "dump"
    /\ procs'[p].pc # "dump"
    /\ crashesLeft' = crashesLeft

\* the top-level fields a stage sets on a record
Owned(tool) ==
    CASE tool = "extract" -> {"extraction_status", "extraction_dir"}
      [] tool = "analyze" -> {"image_analysis_status"}
      [] tool = "classify" -> {"classification"}
      [] tool = "transcribe" -> {"transcription_status"}
      [] OTHER -> {}

\* C11 as stated: no tool that reads the inventory ends with an uncaught
\* error of its load: an absent or unparsable inventory file is loaded as
\* the empty mapping and the run goes on to its end.
C11_Original == obs.fatal = {}

\* C12: when an update_item(key, partial) on a parsable inventory that holds
\* key has written the file, the file parses, holds the same keys, the
\* records of all other keys are the ones it held before, and the record of
\* key has partial's value for every field of partial and its previous value
\* for every other field.
C12_MergeUpdate ==
    [][\A p \in Procs :
         LET k == procs[p].upd.key
             part == procs[p].upd.partial
             old == procs[p].pre.data
             new == invFile'.data
         IN  (/\ Dumps(p) /\ k # 0
              /\ procs[p].pre.st = "ok" /\ k \in DOMAIN old)
             => /\ invFile'.st = "ok"
                /\ DOMAIN new = DOMAIN old
                /\ \A u \in DOMAIN old \ {k} : new[u] = old[u]
                /\ DOMAIN new[k] = DOMAIN old[k] \cup DOMAIN part
                /\ \A f \in DOMAIN new[k] :
                      new[k][f] = IF f \in DOMAIN part THEN part[f] ELSE old[k][f]
      ]_vars

C12_Witness ==
    /\ invFile.st = "ok"
    /\ \A p \in Procs : procs[p].tool = "none"
    /\ \E u \in DOMAIN invFile.data :
          /\ Field(invFile.data[u], "classification") = "other"
          /\ Field(invFile.data[u], "status") = "downloaded"
          /\ HasLocal(invFile.data[u])
    /\ \E u \in DOMAIN invFile.data : "classification" \notin DOMAIN invFile.data[u]

\* C13 as stated: when a process is interrupted while it writes the
\* inventory, the file holds what it held before the write began.
C13_Original ==
    [][crashesLeft' < crashesLeft
         => \E p \in Procs : procs[p].pc = "dump" /\ invFile' = procs[p].pre
      ]_vars

\* C14: when an update_item writes the file after another update_item, for
\* another key, has written it, and had loaded before that other write (so
\* what it loaded lacks the other update), the file holds what the second
\* writer loaded with the second update merged in, and the record of the
\* first writer's key lacks the first writer's update.
C14_LostUpdate ==
    [][\A q \in Procs :
         LET upd == procs[q].upd
         IN  (/\ Dumps(q) /\ upd.key # 0
              /\ upd.by.key \notin {0, upd.key}
              /\ upd.by.key \in DOMAIN upd.base
              /\ Lacks(upd.base[upd.by.key], upd.by.partial))
             => /\ invFile'.data = Put(upd.base, upd.key,
                                       Update(upd.base[upd.key], upd.partial))
                /\ Lacks(invFile'.data[upd.by.key], upd.by.partial)
      ]_vars

C14_Witness ==
    /\ obs.dropped # {}
    /\ invFile.st = "ok"
    /\ \A p \in Procs : procs[p].tool = "none"

\* C15 as stated: when a stage tool's update_item has written a record, and
\* nothing was written between that update_item's load and its write, every
\* field of the record the stage does not own has the value the file held
\* just before the write.
C15_Original ==
    [][\A p \in Procs :
         LET k == procs[p].upd.key
             old == procs[p].pre.data
         IN  (/\ Dumps(p) /\ k # 0
              /\ procs[p].pre.st = "ok"
              /\ procs[p].upd.base = old)
             => \A f \in DOMAIN old[k] \ Owned(procs[p].tool) :
                    invFile'.data[k][f] = old[k][f]
      ]_vars

\* C16 as stated: whenever no write is under way, the inventory holds every
\* key it has held since the last interrupted write (the keys of a file that
\* does not parse are the ones repair_inventory recovers from it).
C16_Original ==
    (\A p \in Procs : procs[p].pc # "dump") => obs.ever \subseteq StoredKeys(invFile)

\* C17 as stated: every stored status is pending, downloaded or failed; a
\* downloaded item has a local_path; download_file is never called for an
\* item that was stored as downloaded; and an item that was stored as
\* downloaded is downloaded in every parsable inventory that holds it.
C17_Original ==
    /\ \A u \in StoredKeys(invFile) :
          /\ Field(invFile.data[u], "status") \in {"pending", "downloaded", "failed"}
          /\ Field(invFile.data[u], "status") = "downloaded" => HasLocal(invFile.data[u])
    /\ obs.again = {}
    /\ invFile.st = "ok" =>
          \A u \in obs.wasDl \cap DOMAIN invFile.data :
              Field(invFile.data[u], "status") = "downloaded"

(* ---------------------- the stages: observation ----------------------- *)
\* the version of the artifact a stage checks
Artifact(stage, a, md) ==
    CASE stage = "analyze" -> a.analysis.v
      [] stage = "faces" -> a.faces
      [] stage = "eval" -> a.eval
      [] stage = "ocr" -> a.ocr
      [] stage = "pdf_ocr" -> md
      [] OTHER -> a.avif

\* what else a stage asks of the image before its skip check
Wanted(stage, a) ==
    CASE stage = "faces" -> a.analysis.v > 0 /\ a.analysis.has_faces
      [] stage = "ocr" -> a.analysis.v > 0 /\ a.analysis.needs_ocr
      [] stage = "eval" -> a.dir
      [] OTHER -> TRUE

\* C18: in a call of the image-analysis stage on an image: if
\* <image_path>.json exists, <image_stem>/analysis.json does not and
\* os.rename does not raise, the sidecar is moved (it is gone, and unless
\* overwrite is on analysis.json holds its content and the image is not
\* analysed); if both exist, nothing is moved, the sidecar is unchanged, the
\* image is analysed exactly when overwrite is on and analysis.json is
\* unchanged otherwise; and an image whose sidecar was moved in an earlier
\* call sees no further move.
C18_Migration ==
    [][(stepsLeft' < stepsLeft /\ lastStep'.stage = "analyze") =>
         LET a == pic
             b == pic'
         IN  /\ (a.old_json.v > 0 /\ a.analysis.v = 0 /\ ~lastStep'.fault)
                  => /\ lastStep'.moved /\ ~a.moved
                     /\ b.old_json.v = 0
                     /\ ~lastStep'.invoked => b.analysis = a.old_json
                     /\ lastStep'.invoked = lastStep'.overwrite
             /\ (a.old_json.v > 0 /\ a.analysis.v > 0)
                  => /\ ~lastStep'.moved
                     /\ b.old_json = a.old_json
                     /\ lastStep'.invoked = lastStep'.overwrite
                     /\ ~lastStep'.invoked => b.analysis = a.analysis
             /\ a.moved => ~lastStep'.moved
      ]_vars

C18_Witness ==
    /\ pic.moved
    /\ pic.analysis = OldAnalysis
    /\ pic.old_json.v = 0
    /\ lastStep.stage = "analyze" /\ ~lastStep.moved /\ ~lastStep.invoked

\* C19 as stated: after a call of the image-analysis, face-detection or
\* image-OCR stage on an image whose analysis exists only as the sidecar
\* <image_path>.json (os.rename not raising), <image_stem>/analysis.json
\* exists.
C19_Original ==
    [][(stepsLeft' < stepsLeft /\ lastStep'.stage \in {"analyze", "faces", "ocr"}) =>
         ((pic.old_json.v > 0 /\ pic.analysis.v = 0 /\ ~lastStep'.fault)
            => pic'.analysis.v > 0)
      ]_vars

\* C20: in a call of any of the six stages on an item whose artifact
\* exists: with overwrite off the work function is not called and the
\* artifact is unchanged; with overwrite on, the work function is called
\* when the item has what the stage asks for and no input of the call (a
\* dry run, an unreadable file) keeps the stage from working.
C20_SkipIfDone ==
    [][(stepsLeft' < stepsLeft) =>
         LET s == lastStep'
             before == Artifact(s.stage, pic, ocr_md)
             after == Artifact(s.stage, pic', ocr_md')
         IN  /\ (before > 0 /\ ~s.overwrite) => (~s.invoked /\ after = before)
             /\ (before > 0 /\ s.overwrite /\ Wanted(s.stage, pic) /\ ~s.fault)
                  => s.invoked
      ]_vars

C20_Witness ==
    /\ lastStep.stage = "faces" /\ lastStep.overwrite /\ lastStep.invoked
    /\ pic.faces > 1
    /\ pic.eval = 1

(* ------------------- the document stages: observation ------------------ *)
\* the step is one pass of the loop body of the tool at p, for item u
LoopBody(p, tool, u) ==
    /\ procs[p].tool = tool /\ procs[p].pc = "loop"
    /\ NextIn(procs[p].inv, procs[p].k) = u
    /\ procs'[p] # procs[p]

\* C21 as stated: when an extraction run comes to a PDF item whose images an
\* earlier extraction run has written, it writes no file of the item
\* (content.txt and the images keep their modification times) and the
\* inventory file stays as it is.
C21_Original ==
    [][\A p \in Procs : \A u \in DOMAIN disk :
         (LoopBody(p, "extract", u) /\ UrlExt(u) = "pdf" /\ disk[u].imgs > 0)
         => (disk'[u] = disk[u] /\ invFile' = invFile)
      ]_vars

\* C22 as stated: whenever no extraction run is under way, the stored record
\* of every PDF item whose images were written has extraction_status "done"
\* and an extraction_dir.
C22_Original ==
    (\A p \in Procs : procs[p].tool # "extract")
    => \A u \in DOMAIN disk :
          (UrlExt(u) = "pdf" /\ disk[u].imgs > 0)
          => /\ invFile.st = "ok" /\ u \in DOMAIN invFile.data
             /\ Field(invFile.data[u], "extraction_status") = "done"
             /\ "extraction_dir" \in DOMAIN invFile.data[u]

\* C23 as stated: when an extraction run ends at an item, no item after it in
\* the inventory is one the run would have extracted.
C23_Original ==
    [][\A p \in Procs : \A u \in DOMAIN disk :
         (LoopBody(p, "extract", u) /\ procs'[p].tool = "none")
         => \A v \in DOMAIN procs[p].inv :
               v > u => ~ExtractEligible(procs[p].inv[v], v)
      ]_vars

\* C24 as stated: when update_item of an image-analysis run has written the
\* record of an item, the stored image_analysis_status is "done" if every
\* image of the item has an analysis.json and "partial" otherwise.
C24_Original ==
    [][\A p \in Procs :
         LET k == procs[p].upd.key
         IN  (Dumps(p) /\ procs[p].tool = "analyze" /\ k # 0)
             => Field(invFile'.data[k], "image_analysis_status")
                  = IF disk[k].analysed = Pics THEN "done" ELSE "partial"
      ]_vars

\* C26 as stated: when a classification run comes to a downloaded item whose
\* file exists and whose stored classification is "error", it classifies the
\* item again (update_item is called for it).
C26_Original ==
    [][\A p \in Procs : \A u \in DOMAIN disk :
         (/\ LoopBody(p, "classify", u)
          /\ Field(procs[p].inv[u], "classification") = "error"
          /\ Field(procs[p].inv[u], "status") = "downloaded"
          /\ LocalExists(procs[p].inv[u], u))
         => procs'[p].upd.key = u
      ]_vars

\* C25 as stated: once analysis.txt has been written for a reply that did
\* not parse, a call of the image-analysis stage on the image with overwrite
\* off does not call analyze_image.
C25_Original ==
    [][(/\ stepsLeft' < stepsLeft /\ lastStep'.stage = "analyze"
        /\ pic.fallback /\ ~lastStep'.overwrite)
       => ~lastStep'.invoked
      ]_vars

\* C27 as stated: no artifact path of the image (analysis.json, faces.json,
\* eval.json, ocr.txt, full.avif) holds an incomplete file.
C27_Original == pic.torn = {}

\* lines 422-478: the faces ingest_faces has to publish, those with a
\* non-empty embedding in a readable faces.json of an image directory
EmbeddedFaces ==
    UNION {{FaceId(ImageEntries[k][1], ImageEntries[k][2], i - 1) :
               i \in {j \in 1 .. Len(FacesData(ImageEntries[k][1], ImageEntries[k][2])) :
                        FacesData(ImageEntries[k][1], ImageEntries[k][2])[j]}} :
           k \in {x \in 1 .. Len(ImageEntries) :
                    /\ IsDir(ImageEntries[x][1], ImageEntries[x][2])
                    /\ Exists(Path(ImgDbId(ImageEntries[x][1], ImageEntries[x][2]),
                                   "faces.json"))
                    /\ FacesReadable(ImageEntries[x][1], ImageEntries[x][2])}}

\* C28 as stated: when a publish run that was to ingest faces without the
\* store's vector type has come to its end without an exception, every face
\* with a non-empty embedding has a record in the faces collection.
C28_Original ==
    (pc = "save" /\ ~vector /\ only \in {"all", COL_FACES} /\ ~run.aborted)
        => EmbeddedFaces \subseteq DOMAIN remote[COL_FACES]

\* the two previews of an entity directory exist and are in the bucket
PreviewsUploaded(kind, dir) ==
    \A name \in {"medium.avif", "thumb.avif"} :
        /\ Exists(Path(dir, name))
        /\ <<kind, dir, name>> \in DOMAIN blobs

\* C29: a Document record is in the remote store only if both of its
\* previews exist and were uploaded; an Image record only if its eval.json
\* is readable and both previews exist and were uploaded; a Face record
\* only if the face has a non-empty embedding.
C29_ProjectionPreconditions ==
    /\ \A id \in DOMAIN remote[COL_DOCUMENTS] :
          /\ PreviewsUploaded(COL_DOCUMENTS, id)
          /\ remote[COL_DOCUMENTS][id].preview_medium
          /\ remote[COL_DOCUMENTS][id].preview_thumb
    /\ \A id \in DOMAIN remote[COL_IMAGES] :
          /\ Exists(Path(id, "eval.json"))
          /\ EvalReadable(id[1], id[2])
          /\ PreviewsUploaded(COL_IMAGES, id)
          /\ remote[COL_IMAGES][id].preview_medium
          /\ remote[COL_IMAGES][id].preview_thumb
    /\ \A id \in DOMAIN remote[COL_FACES] :
          /\ id[3] + 1 \in 1 .. Len(FacesData(id[1], id[2]))
          /\ FacesData(id[1], id[2])[id[3] + 1]

\* a run has committed records of the three kinds, left out a document
\* without previews and a face without embedding, and a preview upload of
\* document 1 failed so that no record of it was staged
C29_Witness ==
    /\ pc = "save"
    /\ \A k \in Kinds : DOMAIN remote[k] # {}
    /\ <<COL_DOCUMENTS, DocId(1)>> \in run.uploadFailed \ run.staged
    /\ DocId(1) \notin DOMAIN remote[COL_DOCUMENTS]
    /\ DocId(2) \notin DOMAIN remote[COL_DOCUMENTS]
    /\ FaceId(4, 1, 1) \in DOMAIN remote[COL_FACES]
    /\ FaceId(4, 1, 0) \notin DOMAIN remote[COL_FACES]

\* the value a step leaves for an entity in pending_updates (0: none)
Pending(pu, e) == Get(pu, e[2])

\* C30: no stored SyncState value is later than the entity's fingerprint;
\* the value a step stages for an entity is the fingerprint computed in that
\* step, before the record was built, and the value a commit stores is the
\* staged one, not one read at commit time; and an artifact modified at any
\* moment, a run under way included, leaves every entity depending on it
\* stale against the value in memory, the staged value and the saved file,
\* so that no pass skips an entity with an artifact modified after the
\* stored fingerprint was computed.
C30_NoLostUpdate ==
    /\ [](\A e \in AllEntities :
            /\ Stored(state, e) <= Fingerprint(e[1], e[2])
            /\ Stored(stateFile.data, e) <= Fingerprint(e[1], e[2])
            /\ pc = e[1] => Pending(pending_updates, e) <= Fingerprint(e[1], e[2]))
    /\ [][\A e \in AllEntities :
            /\ (pc = e[1] /\ pc' = e[1]
                    /\ Pending(pending_updates', e) # Pending(pending_updates, e)
                    /\ e[2] \in DOMAIN pending_updates')
                  => Pending(pending_updates', e) = Fingerprint(e[1], e[2])
            /\ (pc = e[1] /\ Stored(state', e) # Stored(state, e))
                  => Stored(state', e) =
                        IF e[2] \in DOMAIN pending_updates
                        THEN pending_updates[e[2]]
                        ELSE Fingerprint(e[1], e[2])
            /\ (\E p \in DepPaths(e[1], e[2]) : Mtime(p)' # Mtime(p))
                  => /\ Fingerprint(e[1], e[2])' > Stored(state', e)
                     /\ Fingerprint(e[1], e[2])' > Stored(stateFile'.data, e)
                     /\ pc' = e[1] =>
                            Fingerprint(e[1], e[2])' > Pending(pending_updates', e)
            /\ (e \in run'.skipped \ run.skipped)
                  => \A p \in DepPaths(e[1], e[2]) \cap DOMAIN touched :
                        touched[p] <= Stored(state, e)
       ]_vars

\* an artifact of document 1 was modified during the first run, after the
\* document's fingerprint was computed: the run committed and saved the
\* older fingerprint, and the next run, not forced, stages the document again
C30_Witness ==
    /\ pc = COL_IMAGES
    /\ ~force
    /\ last.ran /\ last.clean /\ ~last.changed
    /\ \E p \in DepPaths(COL_DOCUMENTS, DocId(1)) \cap DOMAIN touched :
          touched[p] > Stored(run.start, <<COL_DOCUMENTS, DocId(1)>>)
    /\ Stored(run.start, <<COL_DOCUMENTS, DocId(1)>>) > 0
    /\ <<COL_DOCUMENTS, DocId(1)>> \in run.committed

\* C31 as stated: when repair() opens a corrupt inventory file to rewrite
\* it, the backup file holds the content the inventory file had just
\* before, also when a backup from an earlier repair exists.
C31_Original ==
    [][\A p \in Procs :
          (procs[p].tool = "repair" /\ procs[p].pc = "open"
              /\ procs'[p].pc = "dump")
            => bakFile = invFile]_vars

\* C32: the uncommitted batch never holds more than BatchLimit records, and
\* when an ingest function has come to its end, or the run to its end
\* without an exception, every record it staged was committed.
C32_BoundedBatch ==
    /\ Len(batch) <= BatchLimit
    /\ \A x \in run.staged : x[1] \in run.done => x \in run.committed
    /\ (pc = "save" /\ ~run.aborted) =>
          /\ run.staged \subseteq run.committed
          /\ batch = <<>>

\* a run without an exception that committed full batches and, at the end
\* of each ingest function, a partial one
C32_Witness ==
    /\ pc = "save"
    /\ ~run.aborted
    /\ run.done = Kinds
    /\ run.commits >= 5
    /\ \A k \in Kinds :
          Cardinality({x \in run.staged : x[1] = k}) % BatchLimit # 0
    /\ run.staged \subseteq run.committed

\* C33: content extraction of a PDF works on an item only if the record the
\* run loaded has status downloaded and a classification; classification
\* updates an item only if its status is downloaded; faces.json (ocr.txt)
\* is written only if analysis.json exists with has_faces (needs_ocr) true;
\* and an Image record is committed only if the image's eval.json exists.
C33_StageOrder ==
    [][/\ \A p \in Procs : \A u \in DOMAIN disk :
            /\ (LoopBody(p, "extract", u) /\ UrlExt(u) = "pdf" /\ disk'[u] # disk[u])
                  => /\ Field(procs[p].inv[u], "status") = "downloaded"
                     /\ Field(procs[p].inv[u], "classification") # ""
            /\ (LoopBody(p, "classify", u) /\ procs'[p].upd.key = u)
                  => Field(procs[p].inv[u], "status") = "downloaded"
       /\ pic'.faces # pic.faces
            => (pic.analysis.v > 0 /\ pic.analysis.has_faces)
       /\ pic'.ocr # pic.ocr
            => (pic.analysis.v > 0 /\ pic.analysis.needs_ocr)
       /\ \A id \in DOMAIN remote'[COL_IMAGES] :
            (id \notin DOMAIN remote[COL_IMAGES]
                \/ remote'[COL_IMAGES][id] # remote[COL_IMAGES][id])
              => Exists(Path(id, "eval.json"))
      ]_vars

\* after a classification and an extraction pass: the downloaded PDF was
\* classified and extracted, the one whose download failed after its file
\* was created was left alone by both
C33_Witness ==
    /\ \A p \in Procs : procs[p].tool = "none"
    /\ invFile.st = "ok"
    /\ DOMAIN invFile.data = PdfUrls
    /\ Field(invFile.data[NUrls + 1], "status") = "failed"
    /\ "local_path" \in DOMAIN invFile.data[NUrls + 1]
    /\ "classification" \notin DOMAIN invFile.data[NUrls + 1]
    /\ ~disk[NUrls + 1].dir
    /\ Field(invFile.data[NUrls + 2], "status") = "downloaded"
    /\ Field(invFile.data[NUrls + 2], "classification") = "text"
    /\ disk[NUrls + 2].imgs > 0
    /\ runsLeft = 0

\* C34: in the download loop of a scraper run, download_file is called for
\* the current item exactly when its status is not downloaded and its local
\* file does not exist, the call leaves it downloaded or failed, and the
\* loop then moves past the item for the rest of the run; when the run
\* completes, every item it holds, and every item of the parsable file, is
\* downloaded or failed.
C34_DownloadRetry ==
    [][\A p \in Procs :
        /\ \A u \in DOMAIN procs[p].inv :
              LoopBody(p, "scraper", u) =>
                 /\ procs[p].k <= u /\ procs'[p].k = u + 1
                 /\ (procs'[p].pc = "open") <=>
                       (/\ Field(procs[p].inv[u], "status") \in {"pending", "failed"}
                        /\ ~LocalExists(procs[p].inv[u], u))
                 /\ Field(procs'[p].inv[u], "status") \in {"downloaded", "failed"}
                 /\ \A v \in DOMAIN procs[p].inv :
                       v # u => procs'[p].inv[v] = procs[p].inv[v]
        /\ (procs[p].tool = "scraper" /\ procs[p].pc = "loop"
                /\ procs'[p].tool = "none")
              => /\ \A u \in DOMAIN procs[p].inv :
                       Field(procs[p].inv[u], "status") \in {"downloaded", "failed"}
                 /\ invFile.st = "ok" =>
                       \A u \in DOMAIN invFile.data :
                          Field(invFile.data[u], "status") \in {"downloaded", "failed"}
      ]_vars

\* the second scraper run over a fresh checkout has just downloaded the
\* first url, whose download failed in the first run, and is about to save
C34_Witness ==
    /\ procs[1].tool = "scraper" /\ procs[1].pc = "open" /\ procs[1].ret = "loop"
    /\ runsLeft = 0
    /\ crashesLeft = MaxCrashes
    /\ invFile.st = "ok"
    /\ 1 \in DOMAIN invFile.data
    /\ invFile.data[1] = [status |-> "failed"]
    /\ procs[1].inv[1] = [status |-> "downloaded", local_path |-> 1]
    /\ procs[1].k = 2

\* C35 as stated: whenever full.avif of the image exists, its tiny, thumb,
\* small and medium derivatives exist.
C35_Original ==
    pic.avif > 0 => pic.sizes = {"tiny", "thumb", "small", "medium"}

\* C36 as stated: at the end of a publish pass, each blob of a document
\* whose record the pass committed holds the content of the current local
\* artifact (the blob's version is the local file's modification).
C36_Original ==
    (pc = "save" /\ ~run.aborted) =>
        \A u \in 1 .. NPdf :
            <<COL_DOCUMENTS, DocId(u)>> \in run.committed =>
                \A i \in DOMAIN DocUploads(u) :
                    LET up == DocUploads(u)[i]
                    IN  up.dest \in DOMAIN blobs =>
                            blobs[up.dest].version = Mtime(up.local)

\* C37 as stated: at the end of a complete publish run without a failed
\* upload or commit, the parent_image_id of every record of the faces
\* collection is the id of a record of the images collection.
C37_Original ==
    (pc = "save" /\ only = "all" /\ ~run.aborted /\ ~run.faults) =>
        \A id \in DOMAIN remote[COL_FACES] :
            remote[COL_FACES][id].parent_image_id \in DOMAIN remote[COL_IMAGES]

\* C38 as stated: when the scraper's save_inventory writes the file, with
\* no other write between its open and its dump, every classification the
\* file held before the write is in the file after it.
C38_Original ==
    [][\A p \in Procs :
         LET old == procs[p].pre
         IN  (/\ procs[p].tool = "scraper" /\ Dumps(p)
              /\ old.st = "ok" /\ invFile = TruncatedFile
              /\ \A q \in Procs \ {p} : procs[q].pc # "dump")
             => \A u \in DOMAIN old.data :
                    "classification" \in DOMAIN old.data[u]
                    => /\ invFile'.st = "ok"
                       /\ u \in DOMAIN invFile'.data
                       /\ "classification" \in DOMAIN invFile'.data[u]
                       /\ invFile'.data[u].classification
                              = old.data[u].classification
      ]_vars

\* C39: a classification, extraction or analysis pass opens the inventory
\* for writing only after an update_item whose own load held the key: a
\* loop step of such a pass leaves the file as it is, and it leads to a
\* write only if the file parses and holds the key at that moment. A pass
\* that loaded a missing or unparsable file never writes.
C39_NoWriteWithoutKey ==
    /\ [](\A p \in Procs :
            procs[p].tool \in {"classify", "extract", "analyze"}
            => /\ procs[p].pc \in {"open", "dump"}
                  => /\ procs[p].upd.key \in DOMAIN procs[p].upd.base
                     /\ procs[p].upd.key \in DOMAIN procs[p].buf
                     /\ DOMAIN procs[p].buf = DOMAIN procs[p].upd.base
               /\ procs[p].inv = EmptyMap => procs[p].pc = "loop")
    /\ [][\A p \in Procs :
            (/\ procs[p].tool \in {"classify", "extract", "analyze"}
             /\ procs[p].pc = "loop"
             /\ procs'[p] # procs[p])
            => /\ invFile' = invFile
               /\ procs'[p].pc = "open"
                  => /\ invFile.st = "ok"
                     /\ procs'[p].upd.key \in DOMAIN invFile.data
                     /\ procs'[p].upd.base = invFile.data
         ]_vars

C39_Witness ==
    /\ invFile.st = "corrupt" /\ invFile.kind # "empty"
    /\ crashesLeft = 0
    /\ \A q \in Procs : procs[q].pc \notin {"open", "dump"}
    /\ \E p \in Procs :
          /\ procs[p].tool \in {"classify", "extract", "analyze"}
          /\ procs[p].pc = "loop" /\ procs[p].k > 1
          /\ procs[p].inv # EmptyMap

\* C40 as stated: at the end of a publish pass over the images without a
\* fault, the record of every published image whose analysis.json exists
\* holds that file's data, also when the file appeared after the image was
\* last published.
C40_Original ==
    (pc = "save" /\ only \in {"all", COL_IMAGES} /\ ~run.aborted /\ ~run.faults) =>
        \A d \in ImgDirs \cap DOMAIN remote[COL_IMAGES] :
            Exists(Path(d, "analysis.json"))
            => remote[COL_IMAGES][d].analysis = Mtime(Path(d, "analysis.json"))

====
